---- MODULE Spec2Model ----
(***************************************************************************)
(* Conversation memory manager of the shopping chatbot backend:            *)
(* chatService.handleMessage, summaryService.checkAndSummarize /           *)
(* createSummary / reSummarize, llmService.generateReply /                 *)
(* generateSummary, and the message and conversation repositories.         *)
(*                                                                         *)
(* A turn (one call of handleMessage) is a process; every `await` of the   *)
(* source is one step of it, so that turns interleave exactly where the    *)
(* event loop lets them.  Texts are sequences of tokens; " " and "\n" are  *)
(* the white-space tokens String.prototype.trim removes.                   *)
(*                                                                         *)
(* The prompt builders of the llm service are operators, exercised on      *)
(* their own by SpecPrompt, whose initial states draw the parameters.      *)
(* The middleware in front of the route, rateLimiter over Redis and        *)
(* validateMessage, is exercised by SpecLimiter and SpecValidate.          *)
(***************************************************************************)
EXTENDS Integers, Sequences, FiniteSets, TLC

\* ---------------------------------------------------------------- bounds
MaxMessages == 28        \* rows of the message table, all conversations
MaxConvs == 1            \* rows of the conversation table
MaxFaults == 1           \* gateway calls that throw or answer blank, plus
                         \* store calls that throw
NumTurns == 2            \* handleMessage calls that can be in flight
Overlap == 8             \* turns overlap only in the last Overlap rows
MaxTail == 2             \* rawMessages passed to a prompt builder on its own
NumSlots == 2            \* requests that can be inside rateLimiter at once
MaxCount == 22           \* value a rate-limit counter can reach
MaxEvents == 1           \* rate-limit keys that reach the end of their TTL,
                         \* plus Redis commands that throw
Near == 1                \* requests meet inside rateLimiter only when a
                         \* counter of theirs is absent or within Near of
                         \* its limit
MaxChars == 4            \* tokens of a req.body.message string
MaxChunks == 3           \* fragments of a reply stream before its end

\* ------------------------------------------------------ program constants
RAW_WINDOW_SIZE == 5
IP_MAX_REQUESTS == 20            \* RATE_LIMITS.IP.maxRequests
SESSION_MAX_REQUESTS == 5        \* RATE_LIMITS.SESSION.maxRequests
WINDOW_SECONDS == 60             \* Math.ceil(windowMs / 1000)
MAX_MESSAGE_LENGTH == 5000
SUMMARY_THRESHOLD == 20
RE_SUMMARY_THRESHOLD == 10

FALLBACK_REPLY ==
    <<"Sorry, I'm having trouble responding right now. Please try again in a moment.">>

\* ------------------------------------------------------------ null, texts
\* A nullable column or value: NULL, or Some(v).
NULL == <<>>
Some(v) == <<v>>
Val(o) == o[1]

Whitespace == {" ", "\n"}

RECURSIVE TrimStart(_)
TrimStart(s) ==
    IF s # <<>> /\ Head(s) \in Whitespace THEN TrimStart(Tail(s)) ELSE s

RECURSIVE TrimEnd(_)
TrimEnd(s) ==
    IF s # <<>> /\ s[Len(s)] \in Whitespace
    THEN TrimEnd(SubSeq(s, 1, Len(s) - 1))
    ELSE s

\* String.prototype.trim
Trim(s) == TrimEnd(TrimStart(s))

\* JavaScript truthiness of a string | null: neither null nor "".
Truthy(o) == o # NULL /\ Val(o) # <<>>

\* `x || 0` on a number | null
OrZero(o) == IF o = NULL \/ Val(o) = 0 THEN 0 ELSE Val(o)

\* ------------------------------------------------------------ the gateway
\* What model.generateContent can do: throw, or answer with a text.
GatewayTexts == { <<>>, <<" ">>, <<"ok">> }
GatewayOutcomes ==
    { [threw |-> TRUE, text |-> <<>>] }
        \cup { [threw |-> FALSE, text |-> x] : x \in GatewayTexts }

\* An answer with something in it; the others are counted as faults.
Nominal(r) == ~r.threw /\ Trim(r.text) # <<>>

\* ------------------------------------------------------------ the inputs
NoSessionId == 0         \* sessionId absent from the request
StaleSessionId == -1     \* a sessionId that names no stored conversation
UserTexts == { <<"hi">> }

Turns == 1 .. NumTurns

VARIABLES
    conversations,   \* conversation table: id -> [summary, summaryUntil]
    messages,        \* message table: conversation id -> rows, oldest first
    pc,              \* turn -> the await it is suspended at
    frame,           \* turn -> locals of handleMessage and its callees
    gwFaults,        \* gateway faults so far
    storeFaults      \* store faults so far

\* the llm service called on its own
VARIABLES
    params,          \* { summary, rawMessages, userMessage } of the calls
    prompt           \* function called -> what it sent and gave back

\* rateLimiter and Redis
VARIABLES
    redis,           \* key -> [count, ttl, gen]; count 0: no such key
    reqs,            \* slot -> the request inside rateLimiter
    passed,          \* key -> per generation of the key, the requests it
                     \* counted that next() was called for after the check
    used             \* expiries and Redis faults so far

\* validateMessage and the route handler behind it
VARIABLES
    req,             \* the request: message as received, and req.body
    res,             \* the response sent by the middleware, if any
    stage,           \* where the request is in the chain of the route
    invoked          \* the message the handler gave the chat service

\* the environment of the server process
VARIABLES
    NODE_ENV         \* process.env.NODE_ENV

\* the streaming POST /chat/message route
VARIABLES
    sse              \* the request being streamed: the reply stream, the
                     \* response and the connection

chatVars == <<conversations, messages, pc, frame, gwFaults, storeFaults>>
streamVars == <<sse>>
processVars == <<NODE_ENV>>
promptVars == <<params, prompt>>
limiterVars == <<redis, reqs, passed, used>>
validatorVars == <<req, res, stage, invoked>>

vars ==
    <<chatVars, promptVars, limiterVars, validatorVars, processVars, streamVars>>

\* what the steps of one part leave alone
exceptChat ==
    <<promptVars, limiterVars, validatorVars, processVars, streamVars>>
exceptPrompt ==
    <<chatVars, limiterVars, validatorVars, processVars, streamVars>>
exceptLimiter ==
    <<chatVars, promptVars, validatorVars, processVars, streamVars>>
exceptValidator ==
    <<chatVars, promptVars, limiterVars, processVars, streamVars>>

NoConversation == [id |-> 0, summary |-> NULL, summaryUntil |-> NULL]

EmptyFrame ==
    [ message |-> <<>>,
      sessionId |-> NoSessionId,
      conversation |-> NoConversation,
      userIndex |-> 0,
      aiIndex |-> 0,
      totalMessageCount |-> 0,
      messageCountToSummarize |-> 0,
      allMessages |-> <<>>,
      newMessageStart |-> 0,
      newMessageEnd |-> 0,
      existingSummary |-> <<>>,
      newMessages |-> <<>>,
      summaryText |-> <<>>,
      updatedConversation |-> NoConversation,
      rawMessages |-> <<>>,
      calls |-> <<>>,
      first |-> NULL,
      reply |-> NULL,
      returned |-> NULL,
      error |-> "none",
      response |-> NULL ]

\* no request has been received
IdleChat ==
    /\ conversations = <<>>
    /\ messages = <<>>
    /\ pc = [t \in Turns |-> "idle"]
    /\ frame = [t \in Turns |-> EmptyFrame]
    /\ gwFaults = 0
    /\ storeFaults = 0

NoParams == [summary |-> NULL, rawMessages |-> <<>>, userMessage |-> <<>>]
NoPrompt == [generateReply |-> NULL, generateReplyStream |-> NULL]

\* the llm service is not called on its own
IdlePrompt == params = NoParams /\ prompt = NoPrompt

\* ----- Redis and the requests inside rateLimiter
Ips == {"10.0.0.1"}
Anonymous == "anonymous"
LimiterSessionIds == {Anonymous, "s1"}

ipKey(ip) == <<"rate_limit:ip:", ip>>
sessionKey(sessionId) == <<"rate_limit:session:", sessionId>>

Keys == { ipKey(ip) : ip \in Ips }
            \cup { sessionKey(s) : s \in LimiterSessionIds \ {Anonymous} }

NoKey == [count |-> 0, ttl |-> NULL, gen |-> 0]

Slots == 1 .. NumSlots

NoRequest ==
    [at |-> "idle", ip |-> "", sessionId |-> Anonymous,
     ipCount |-> 0, sessionCount |-> 0, ipGen |-> 0, sessionGen |-> 0,
     status |-> 0, nexts |-> 0, threw |-> FALSE]

IdleLimiter ==
    /\ redis = [k \in Keys |-> NoKey]
    /\ reqs = [r \in Slots |-> NoRequest]
    /\ passed = [k \in Keys |-> <<>>]
    /\ used = [expiries |-> 0, faults |-> 0]

\* ----- validateMessage
\* A JSON value is <<type>> or <<type, value>>.
Undefined == <<"undefined">>

Received(message) == [received |-> message, body |-> [message |-> message]]

IdleValidator ==
    /\ req = Received(Undefined)
    /\ res = NULL
    /\ stage = "idle"
    /\ invoked = NULL

exceptStream ==
    <<chatVars, promptVars, limiterVars, validatorVars, processVars>>

\* NODE_ENV is not set
IdleProcess == NODE_ENV = NULL

\* ----- the streaming route
NoStream ==
    [at |-> "idle",          \* idle, or "pull": suspended in `for await`,
                             \* or "ended": the handler is over
     stream |-> <<>>,        \* what the reply stream has still to give
     pulled |-> 0,           \* fragments taken from the reply stream
     writes |-> 0,           \* res.write calls
     ends |-> 0,             \* res.end calls
     sent |-> <<>>,          \* the events that went out to the client
     closed |-> FALSE]       \* the client has disconnected

IdleStream == sse = NoStream

Init ==
    /\ IdleChat /\ IdlePrompt /\ IdleLimiter /\ IdleValidator
    /\ IdleProcess /\ IdleStream

\* ------------------------------------------------------------- the stores
Min(a, b) == IF a < b THEN a ELSE b

RECURSIVE Reverse(_)
Reverse(s) == IF s = <<>> THEN <<>> ELSE Append(Reverse(Tail(s)), Head(s))

\* (variant: the newest rows instead of the oldest)
FindManyAsc_Newest(cid, skip, take) ==
    SubSeq(messages[cid],
           Len(messages[cid]) - Min(Len(messages[cid]), skip + take) + 1,
           Len(messages[cid]) - skip)

\* prisma findMany({ where: { conversationId }, orderBy: { createdAt: "asc" },
\* skip, take })
FindManyAsc(cid, skip, take) ==
    SubSeq(messages[cid], skip + 1, Min(Len(messages[cid]), skip + take))

\* prisma findMany({ where, orderBy: { createdAt: "desc" }, take })
FindManyDesc(cid, take) ==
    SubSeq(Reverse(messages[cid]), 1, Min(Len(messages[cid]), take))

\* (variant: the n rows before the newest one)
getLastN_BeforeNewest(cid, n) ==
    SubSeq(messages[cid],
           IF Len(messages[cid]) > n THEN Len(messages[cid]) - n ELSE 1,
           Len(messages[cid]) - 1)

\* (variant: one row too many)
getLastN_OneMore(cid, n) == Reverse(FindManyDesc(cid, n + 1))

\* messageRepo.getLastN: the newest n rows, reversed to oldest first.  The
\* row keeps createdAt, its rank in the conversation, as its identity.
getLastN(cid, n) == Reverse(FindManyDesc(cid, n))

\* messageRepo.getCount
getCount(cid) == Len(messages[cid])

\* what messageRepo.create adds to the table
NewMessage(cid, sender, text) ==
    [sender |-> sender, text |-> text, createdAt |-> Len(messages[cid]) + 1]

Exists(id) == id \in 1 .. Len(conversations)

\* conversationRepo.findById / prisma.conversation.findUnique
findById(id) ==
    IF Exists(id)
    THEN Some([id |-> id,
               summary |-> conversations[id].summary,
               summaryUntil |-> conversations[id].summaryUntil])
    ELSE NULL

\* prisma.conversation.update({ where: { id }, data })
Update(id, data) == [conversations EXCEPT ![id] = data]

TotalRows == LET RECURSIVE Sum(_)
                 Sum(i) == IF i = 0 THEN 0 ELSE Len(messages[i]) + Sum(i - 1)
             IN  Sum(Len(messages))

\* -------------------------------------------------------- the llm service
\* llmService.generateSummary: the trimmed answer, or a throw (Some/NULL).
llmGenerateSummary(r) ==
    IF r.threw \/ r.text = <<>> THEN NULL ELSE Some(Trim(r.text))

\* (variant: the catch gives back an empty summary)
generateSummary_NoPlaceholder(r, msgs) ==
    IF llmGenerateSummary(r) # NULL
    THEN Val(llmGenerateSummary(r))
    ELSE <<>>

\* summaryService.generateSummary
generateSummary(r, msgs) ==
    IF llmGenerateSummary(r) # NULL
    THEN Val(llmGenerateSummary(r))
    ELSE <<"Conversation summary: ", ToString(Len(msgs)),
           " messages exchanged. Customer inquiries and agent responses recorded.">>

\* summaryService.generateReSummary
generateReSummary(r, existingSummary, msgs) ==
    IF llmGenerateSummary(r) # NULL
    THEN Val(llmGenerateSummary(r))
    ELSE existingSummary
            \o <<"\n\nAdditional messages: ", ToString(Len(msgs)),
                 " more messages exchanged.">>

\* (variant: without the `if (!response)` check)
generateReply_NoEmptyCheck(r) ==
    IF r.threw THEN FALLBACK_REPLY ELSE Trim(r.text)

\* llmService.generateReply, from the gateway's answer on
generateReply(r) ==
    IF r.threw \/ r.text = <<>> THEN FALLBACK_REPLY ELSE Trim(r.text)

\* rawMessages.map((m) => ({ sender: m.sender, text: m.text }))
SenderText(rows) ==
    [i \in 1 .. Len(rows) |-> [sender |-> rows[i].sender, text |-> rows[i].text]]

\* ------------------------------------------------------------ the prompts
\* The text of SYSTEM_PROMPT, as one token.
SYSTEM_PROMPT ==
    "You are a helpful support agent for a small e-commerce store. (...)"

\* parts.join(sep)
RECURSIVE JoinWith(_, _)
JoinWith(parts, sep) ==
    IF parts = <<>> THEN <<>>
    ELSE IF Len(parts) = 1 THEN parts[1]
    ELSE parts[1] \o sep \o JoinWith(Tail(parts), sep)

\* m.sender === "user" ? `Customer: ${m.text}` : `Agent: ${m.text}`
RoleLine(m) ==
    IF m.sender = "user"
    THEN <<"Customer:", " ">> \o m.text
    ELSE <<"Agent:", " ">> \o m.text

RoleLines(msgs) ==
    JoinWith([i \in 1 .. Len(msgs) |-> RoleLine(msgs[i])], <<"\n">>)

\* (variant: the recent conversation is put before the summary)
generateReplyStreamPrompt_TailFirst(summary, rawMessages, userMessage) ==
    JoinWith(
        << <<SYSTEM_PROMPT>> >>
        \o (IF Len(rawMessages) > 0
            THEN << <<"\n", "[Recent conversation]", "\n">>
                        \o RoleLines(rawMessages) >>
            ELSE <<>>)
        \o (IF Truthy(summary)
            THEN << <<"\n", "[Previous conversation summary]", "\n">>
                        \o Val(summary) \o <<"\n", "[End of summary]">> >>
            ELSE <<>>)
        \o << <<"\n", "Customer:", " ">> \o userMessage \o <<"\n", "Agent:">> >>,
        <<"\n", "\n">>)

\* generateReplyStream: contextParts.join("\n\n")
generateReplyStreamPrompt(summary, rawMessages, userMessage) ==
    JoinWith(
        << <<SYSTEM_PROMPT>> >>
        \o (IF Truthy(summary)
            THEN << <<"\n", "[Previous conversation summary]", "\n">>
                        \o Val(summary) \o <<"\n", "[End of summary]">> >>
            ELSE <<>>)
        \o (IF Len(rawMessages) > 0
            THEN << <<"\n", "[Recent conversation]", "\n">>
                        \o RoleLines(rawMessages) >>
            ELSE <<>>)
        \o << <<"\n", "Customer:", " ">> \o userMessage \o <<"\n", "Agent:">> >>,
        <<"\n", "\n">>)

\* generateReply: contextParts.join("\n\n")
generateReplyPrompt(summary, rawMessages, userMessage) ==
    JoinWith(
        << <<SYSTEM_PROMPT>> >>
        \o (IF Truthy(summary)
            THEN << <<"\n", "[Previous conversation summary]", "\n">>
                        \o Val(summary) \o <<"\n", "[End of summary]">> >>
            ELSE <<>>)
        \o (IF Len(rawMessages) > 0
            THEN << <<"\n", "[Recent conversation]", "\n">>
                        \o RoleLines(rawMessages) >>
            ELSE <<>>)
        \o << <<"\n", "Customer:", " ">> \o userMessage \o <<"\n", "Agent:">> >>,
        <<"\n", "\n">>)

NonEmpty(text) == text # <<>>

\* generateReplyStream, from model.generateContentStream on: the fragments
\* it yields when the gateway's stream gives o.chunks and then ends or,
\* with o.threw, throws (without a chunk: the call itself fails)
generateReplyStreamYields(o) ==
    LET yielded == SelectSeq(o.chunks, NonEmpty)
        fullText == JoinWith(yielded, <<>>)
    IN  IF o.threw \/ Trim(fullText) = <<>>
        THEN Append(yielded, FALLBACK_REPLY)
        ELSE yielded

\* the same when the answer comes as one chunk
generateReplyStream(r) ==
    generateReplyStreamYields(
        [chunks |-> IF r.threw THEN <<>> ELSE <<r.text>>, threw |-> r.threw])

\* One exchange with the gateway: what the prompt was built from, and what
\* model.generateContent did.
GatewayCall(fn, summary, msgs, userMessage, r) ==
    [fn |-> fn, summary |-> summary, messages |-> msgs,
     userMessage |-> userMessage, answer |-> r]

\* summaryService.generateSummary: the prompt it hands to
\* llmService.generateSummary
generateSummaryPrompt(msgs) ==
    <<"You are summarizing a customer support conversation. (...)",
      "\n", "\n", "Conversation to summarize:", "\n">>
    \o RoleLines(msgs)
    \o <<"\n", "\n", "Provide a clear, factual summary:">>

\* summaryService.generateReSummary: the prompt it hands to
\* llmService.generateSummary
generateReSummaryPrompt(existingSummary, msgs) ==
    <<"You are updating a conversation summary. (...)",
      "\n", "\n", "Existing summary:", "\n">>
    \o existingSummary
    \o <<"\n", "\n", "New messages to add:", "\n">>
    \o RoleLines(msgs)
    \o <<"\n", "\n", "Create an updated summary that: (...)",
         "\n", "\n", "Updated summary:">>

\* the argument of model.generateContent in an exchange with the gateway
PromptOf(call) ==
    IF call.fn = "generateReply"
    THEN generateReplyPrompt(call.summary, call.messages, Val(call.userMessage))
    ELSE IF call.fn = "generateSummary"
         THEN generateSummaryPrompt(call.messages)
         ELSE generateReSummaryPrompt(Val(call.summary), call.messages)

\* ------------------------------------------------- the summary service
\* (variant: only a null summary counts as absent)
NeedsSummary_NullOnly(conversation, totalMessageCount) ==
    totalMessageCount > SUMMARY_THRESHOLD /\ conversation.summary = NULL

\* (variant: the test is made on the record as stored now)
NeedsSummary_Stored(conversation, totalMessageCount) ==
    /\ totalMessageCount > SUMMARY_THRESHOLD
    /\ ~Truthy(conversations[conversation.id].summary)

\* checkAndSummarize, case 1: the initial summarization trigger
NeedsSummary(conversation, totalMessageCount) ==
    totalMessageCount > SUMMARY_THRESHOLD /\ ~Truthy(conversation.summary)

\* (variant: one message more than the raw window leaves)
messagesToSummarize_OneMore(totalMessageCount) ==
    totalMessageCount - RAW_WINDOW_SIZE + 1

\* checkAndSummarize, case 1: messagesToSummarize
messagesToSummarize(totalMessageCount) == totalMessageCount - RAW_WINDOW_SIZE

\* (variant: the raw window is allowed RAW_WINDOW_SIZE more messages)
NeedsReSummary_Late(conversation, totalMessageCount) ==
    /\ Truthy(conversation.summary)
    /\ conversation.summaryUntil # NULL
    /\ totalMessageCount - Val(conversation.summaryUntil)
           > RE_SUMMARY_THRESHOLD + RAW_WINDOW_SIZE

\* (variant: >= instead of >)
NeedsReSummary_AtThreshold(conversation, totalMessageCount) ==
    /\ Truthy(conversation.summary)
    /\ conversation.summaryUntil # NULL
    /\ totalMessageCount - Val(conversation.summaryUntil) >= RE_SUMMARY_THRESHOLD

\* checkAndSummarize, case 2: the re-summarization trigger
NeedsReSummary(conversation, totalMessageCount) ==
    /\ Truthy(conversation.summary)
    /\ conversation.summaryUntil # NULL
    /\ totalMessageCount - Val(conversation.summaryUntil) > RE_SUMMARY_THRESHOLD

\* createSummary: the data of its conversation.update
createSummaryData(summaryText, messageCountToSummarize) ==
    [summary |-> Some(summaryText), summaryUntil |-> Some(messageCountToSummarize)]

\* (variant: without the + 1)
newMessageStart_NoPlusOne(conversation) == OrZero(conversation.summaryUntil)

\* reSummarize: newMessageStart and newMessageEnd
newMessageStart(conversation) == OrZero(conversation.summaryUntil) + 1

\* (variant: everything before the message that just arrived is folded)
newMessageEnd_AllButLast(currentTotalCount) == currentTotalCount - 1

newMessageEnd(currentTotalCount) == currentTotalCount - RAW_WINDOW_SIZE

\* (variant: the number of messages folded instead of the position reached)
reSummarizeData_Count(newSummaryText, start, end) ==
    [summary |-> Some(newSummaryText), summaryUntil |-> Some(end - start + 1)]

\* reSummarize: the data of its conversation.update
reSummarizeData(newSummaryText, start, end) ==
    [summary |-> Some(newSummaryText), summaryUntil |-> Some(end)]

\* ------------------------------------------------------------- the turns
\* What is left of a call of handleMessage once it has returned or thrown:
\* its arguments, the conversation it used, what it appended and asked the
\* gateway, and its result.  The other locals are gone with the call.
Finished(f) ==
    [EmptyFrame EXCEPT !.message = f.message,
                       !.sessionId = f.sessionId,
                       !.conversation = [NoConversation EXCEPT !.id = f.conversation.id],
                       !.userIndex = f.userIndex,
                       !.aiIndex = f.aiIndex,
                       !.calls = f.calls,
                       !.reply = f.reply]

Returned(f, value) == [Finished(f) EXCEPT !.returned = Some(value)]

Thrown(f, error) == [Finished(f) EXCEPT !.error = error]

InFlight == { t \in Turns : pc[t] \notin {"idle", "done", "threw"} }

WillCreate == { t \in Turns : pc[t] = "findOrCreate" /\ ~Exists(frame[t].sessionId) }

Goto(t, label) == pc' = [pc EXCEPT ![t] = label]

\* A gateway call answers r; blank answers and throws are bounded.
Gateway(r) ==
    /\ r \in GatewayOutcomes
    /\ Nominal(r) \/ gwFaults + storeFaults < MaxFaults
    /\ gwFaults' = IF Nominal(r) THEN gwFaults ELSE gwFaults + 1

\* POST /chat/message calls chatService.handleMessage({ message, sessionId })
handleMessage(t, message, sessionId) ==
    /\ pc[t] \in {"idle", "done", "threw"}
    /\ TotalRows + 2 * Cardinality(InFlight) + 2 <= MaxMessages
    /\ Exists(sessionId) \/ Len(conversations) + Cardinality(WillCreate) < MaxConvs
    /\ frame' = [frame EXCEPT
                    ![t] = [EmptyFrame EXCEPT !.message = message,
                                              !.sessionId = sessionId]]
    /\ Goto(t, "findOrCreate")
    /\ UNCHANGED <<conversations, messages, gwFaults, storeFaults>>
    /\ UNCHANGED exceptChat

\* 1. conversationRepo.findOrCreate(sessionId) or conversationRepo.create()
FindOrCreate(t) ==
    /\ pc[t] = "findOrCreate"
    /\ LET sid == frame[t].sessionId
           found == IF sid # NoSessionId THEN findById(sid) ELSE NULL
       IN  IF found # NULL
           THEN /\ frame' = [frame EXCEPT ![t].conversation = Val(found)]
                /\ UNCHANGED <<conversations, messages>>
           ELSE /\ conversations' =
                       Append(conversations, [summary |-> NULL, summaryUntil |-> NULL])
                /\ messages' = Append(messages, <<>>)
                /\ frame' = [frame EXCEPT
                       ![t].conversation =
                           [id |-> Len(conversations) + 1,
                            summary |-> NULL, summaryUntil |-> NULL]]
    /\ Goto(t, "saveUser")
    /\ UNCHANGED <<gwFaults, storeFaults>>
    /\ UNCHANGED exceptChat

\* (variant: the create is not awaited, and has not happened yet)
SaveUser_NotAwaited(t) ==
    /\ pc[t] = "saveUser"
    /\ Goto(t, "getCount")
    /\ UNCHANGED <<conversations, messages, frame, gwFaults, storeFaults>>
    /\ UNCHANGED exceptChat

\* 2. messageRepo.create({ conversationId, sender: "user", text: message })
SaveUser(t) ==
    /\ pc[t] = "saveUser"
    /\ LET cid == frame[t].conversation.id
       IN  /\ messages' = [messages EXCEPT
                   ![cid] = Append(@, NewMessage(cid, "user", frame[t].message))]
           /\ frame' = [frame EXCEPT ![t].userIndex = Len(messages[cid]) + 1]
    /\ Goto(t, "getCount")
    /\ UNCHANGED <<conversations, gwFaults, storeFaults>>
    /\ UNCHANGED exceptChat

\* 3. messageRepo.getCount(conversation.id)
GetCount(t) ==
    /\ pc[t] = "getCount"
    /\ frame' = [frame EXCEPT
           ![t].totalMessageCount = getCount(frame[t].conversation.id)]
    /\ Goto(t, "checkAndSummarize")
    /\ UNCHANGED <<conversations, messages, gwFaults, storeFaults>>
    /\ UNCHANGED exceptChat

\* 4. summaryService.checkAndSummarize(conversation, totalMessageCount), up
\* to the first await of the transition it picks
checkAndSummarize(t) ==
    /\ pc[t] = "checkAndSummarize"
    /\ LET conversation == frame[t].conversation
           totalMessageCount == frame[t].totalMessageCount
       IN  IF NeedsSummary(conversation, totalMessageCount)
           THEN /\ frame' = [frame EXCEPT
                       ![t].messageCountToSummarize =
                           messagesToSummarize(totalMessageCount)]
                /\ Goto(t, "createSummary")
           ELSE IF NeedsReSummary(conversation, totalMessageCount)
                THEN /\ Goto(t, "reSummarize")
                     /\ UNCHANGED frame
                ELSE /\ Goto(t, "findById")
                     /\ UNCHANGED frame
    /\ UNCHANGED <<conversations, messages, gwFaults, storeFaults>>
    /\ UNCHANGED exceptChat

\* createSummary: findMany of the oldest messageCountToSummarize rows
CreateSummaryFind(t) ==
    /\ pc[t] = "createSummary"
    /\ LET allMessages == FindManyAsc(frame[t].conversation.id, 0,
                                      frame[t].messageCountToSummarize)
       IN  /\ frame' = [frame EXCEPT ![t].allMessages = allMessages]
           /\ Goto(t, IF Len(allMessages) = 0 THEN "findById" ELSE "csGenerate")
    /\ UNCHANGED <<conversations, messages, gwFaults, storeFaults>>
    /\ UNCHANGED exceptChat

\* createSummary: this.generateSummary(allMessages)
CreateSummaryGenerate(t) ==
    /\ pc[t] = "csGenerate"
    /\ \E r \in GatewayOutcomes :
          /\ Gateway(r)
          /\ frame' = [frame EXCEPT
                 ![t].summaryText = generateSummary(r, frame[t].allMessages),
                 ![t].calls = Append(@, GatewayCall("generateSummary", NULL,
                                                    frame[t].allMessages, NULL, r))]
    /\ Goto(t, "csUpdate")
    /\ UNCHANGED <<conversations, messages, storeFaults>>
    /\ UNCHANGED exceptChat

\* (variant: the rows folded into the summary are deleted from the table)
CreateSummaryUpdate_Prunes(t) ==
    /\ pc[t] = "csUpdate"
    /\ conversations' =
           Update(frame[t].conversation.id,
                  createSummaryData(frame[t].summaryText,
                                    frame[t].messageCountToSummarize))
    /\ messages' = [messages EXCEPT ![frame[t].conversation.id] =
                        SubSeq(@, frame[t].messageCountToSummarize + 1, Len(@))]
    /\ Goto(t, "findById")
    /\ UNCHANGED <<frame, gwFaults, storeFaults>>
    /\ UNCHANGED exceptChat

\* createSummary: prisma.conversation.update
CreateSummaryUpdate(t) ==
    /\ pc[t] = "csUpdate"
    /\ conversations' =
           Update(frame[t].conversation.id,
                  createSummaryData(frame[t].summaryText,
                                    frame[t].messageCountToSummarize))
    /\ Goto(t, "findById")
    /\ UNCHANGED <<messages, frame, gwFaults, storeFaults>>
    /\ UNCHANGED exceptChat

\* reSummarize: findUnique of the conversation, and the range to fold
ReSummarizeFindUnique(t) ==
    /\ pc[t] = "reSummarize"
    /\ LET conversation == findById(frame[t].conversation.id)
           start == newMessageStart(Val(conversation))
           end == newMessageEnd(frame[t].totalMessageCount)
       IN  IF conversation = NULL \/ ~Truthy(Val(conversation).summary)
           THEN /\ Goto(t, "findById")
                /\ UNCHANGED frame
           ELSE IF end < start
                THEN /\ Goto(t, "findById")
                     /\ UNCHANGED frame
                ELSE /\ frame' = [frame EXCEPT
                            ![t].existingSummary = Val(Val(conversation).summary),
                            ![t].newMessageStart = start,
                            ![t].newMessageEnd = end]
                     /\ Goto(t, "rsFindMany")
    /\ UNCHANGED <<conversations, messages, gwFaults, storeFaults>>
    /\ UNCHANGED exceptChat

\* reSummarize: findMany({ skip: newMessageStart - 1, take: end - start + 1 })
ReSummarizeFindMany(t) ==
    /\ pc[t] = "rsFindMany"
    /\ LET newMessages ==
               FindManyAsc(frame[t].conversation.id,
                           frame[t].newMessageStart - 1,
                           frame[t].newMessageEnd - frame[t].newMessageStart + 1)
       IN  /\ frame' = [frame EXCEPT ![t].newMessages = newMessages]
           /\ Goto(t, IF Len(newMessages) = 0 THEN "findById" ELSE "rsGenerate")
    /\ UNCHANGED <<conversations, messages, gwFaults, storeFaults>>
    /\ UNCHANGED exceptChat

\* reSummarize: this.generateReSummary(conversation.summary, newMessages)
ReSummarizeGenerate(t) ==
    /\ pc[t] = "rsGenerate"
    /\ \E r \in GatewayOutcomes :
          /\ Gateway(r)
          /\ frame' = [frame EXCEPT
                 ![t].summaryText =
                     generateReSummary(r, frame[t].existingSummary,
                                       frame[t].newMessages),
                 ![t].calls = Append(@, GatewayCall("generateReSummary",
                                                    Some(frame[t].existingSummary),
                                                    frame[t].newMessages, NULL, r))]
    /\ Goto(t, "rsUpdate")
    /\ UNCHANGED <<conversations, messages, storeFaults>>
    /\ UNCHANGED exceptChat

\* reSummarize: prisma.conversation.update
ReSummarizeUpdate(t) ==
    /\ pc[t] = "rsUpdate"
    /\ conversations' =
           Update(frame[t].conversation.id,
                  reSummarizeData(frame[t].summaryText,
                                  frame[t].newMessageStart,
                                  frame[t].newMessageEnd))
    /\ Goto(t, "findById")
    /\ UNCHANGED <<messages, frame, gwFaults, storeFaults>>
    /\ UNCHANGED exceptChat

\* 5. conversationRepo.findById(conversation.id)
Refresh(t) ==
    /\ pc[t] = "findById"
    /\ LET updatedConversation == findById(frame[t].conversation.id)
       IN  IF updatedConversation = NULL
           THEN /\ frame' = [frame EXCEPT
                       ![t] = Thrown(@, "Conversation not found after summarization check")]
                /\ Goto(t, "threw")
           ELSE /\ frame' = [frame EXCEPT
                       ![t].updatedConversation = Val(updatedConversation)]
                /\ Goto(t, "getLastN")
    /\ UNCHANGED <<conversations, messages, gwFaults, storeFaults>>
    /\ UNCHANGED exceptChat

\* 6. messageRepo.getLastN(conversation.id, RAW_WINDOW_SIZE)
GetLastN(t) ==
    /\ pc[t] = "getLastN"
    /\ frame' = [frame EXCEPT
           ![t].rawMessages = getLastN(frame[t].conversation.id, RAW_WINDOW_SIZE)]
    /\ Goto(t, "generateReply")
    /\ UNCHANGED <<conversations, messages, gwFaults, storeFaults>>
    /\ UNCHANGED exceptChat

\* 7. llmService.generateReply({ summary, rawMessages, userMessage })
GenerateReply(t) ==
    /\ pc[t] = "generateReply"
    /\ \E r \in GatewayOutcomes :
          /\ Gateway(r)
          /\ frame' = [frame EXCEPT
                 ![t].reply = Some(generateReply(r)),
                 ![t].calls = Append(@, GatewayCall("generateReply",
                                  frame[t].updatedConversation.summary,
                                  SenderText(frame[t].rawMessages),
                                  Some(frame[t].message), r))]
    /\ Goto(t, "saveReply")
    /\ UNCHANGED <<conversations, messages, storeFaults>>
    /\ UNCHANGED exceptChat

\* (variant: the sessionId of the request is handed back)
SaveReply_SuppliedId(t) ==
    /\ pc[t] = "saveReply"
    /\ LET cid == frame[t].conversation.id
       IN  /\ messages' = [messages EXCEPT
                   ![cid] = Append(@, NewMessage(cid, "ai", Val(frame[t].reply)))]
           /\ frame' = [frame EXCEPT
                   ![t] = Returned([@ EXCEPT !.aiIndex = Len(messages[cid]) + 1],
                                   [reply |-> Val(frame[t].reply),
                                    sessionId |-> frame[t].sessionId])]
    /\ Goto(t, "done")
    /\ UNCHANGED <<conversations, gwFaults, storeFaults>>
    /\ UNCHANGED exceptChat

\* 8. messageRepo.create({ conversationId, sender: "ai", text: reply }) and
\* return { reply, sessionId: conversation.id }
SaveReply(t) ==
    /\ pc[t] = "saveReply"
    /\ LET cid == frame[t].conversation.id
       IN  /\ messages' = [messages EXCEPT
                   ![cid] = Append(@, NewMessage(cid, "ai", Val(frame[t].reply)))]
           /\ frame' = [frame EXCEPT
                   ![t] = Returned([@ EXCEPT !.aiIndex = Len(messages[cid]) + 1],
                                   [reply |-> Val(frame[t].reply),
                                    sessionId |-> cid])]
    /\ Goto(t, "done")
    /\ UNCHANGED <<conversations, gwFaults, storeFaults>>
    /\ UNCHANGED exceptChat

\* The awaits that are a store call; any of them can reject (StoreFailure),
\* and handleMessage has no catch: the rejection reaches the caller.
StoreSteps ==
    {"findOrCreate", "saveUser", "getCount", "createSummary", "csUpdate",
     "reSummarize", "rsFindMany", "rsUpdate", "findById", "getLastN", "saveReply"}

\* (variant: the turn runs in a transaction that a failure rolls back)
StoreFailure_RollsBack(t) ==
    /\ pc[t] \in StoreSteps
    /\ gwFaults + storeFaults < MaxFaults
    /\ storeFaults' = storeFaults + 1
    /\ frame' = [frame EXCEPT ![t] = Thrown(@, "StoreFailure")]
    /\ Goto(t, "threw")
    /\ messages' =
           IF frame[t].userIndex > 0
           THEN [messages EXCEPT ![frame[t].conversation.id] =
                     SubSeq(@, 1, frame[t].userIndex - 1)]
           ELSE messages
    /\ UNCHANGED <<conversations, gwFaults>>
    /\ UNCHANGED exceptChat

StoreFailure(t) ==
    /\ pc[t] \in StoreSteps
    /\ gwFaults + storeFaults < MaxFaults
    /\ storeFaults' = storeFaults + 1
    /\ frame' = [frame EXCEPT ![t] = Thrown(@, "StoreFailure")]
    /\ Goto(t, "threw")
    /\ UNCHANGED <<conversations, messages, gwFaults>>
    /\ UNCHANGED exceptChat

SessionIds == {NoSessionId, StaleSessionId} \cup (1 .. Len(conversations))

Step(t) ==
    \/ FindOrCreate(t)
    \/ SaveUser(t)
    \/ GetCount(t)
    \/ checkAndSummarize(t)
    \/ CreateSummaryFind(t)
    \/ CreateSummaryGenerate(t)
    \/ CreateSummaryUpdate(t)
    \/ ReSummarizeFindUnique(t)
    \/ ReSummarizeFindMany(t)
    \/ ReSummarizeGenerate(t)
    \/ ReSummarizeUpdate(t)
    \/ Refresh(t)
    \/ GetLastN(t)
    \/ GenerateReply(t)
    \/ SaveReply(t)
    \/ StoreFailure(t)

\* A request takes the first turn that is not in flight.
FirstFree(t) == \A u \in Turns : u < t => u \in InFlight

\* Turns arrive whenever a request does, and interleave at their awaits.
\* (To bound the search a request meets a turn in flight only once the
\* table is within Overlap rows of MaxMessages.)
Next ==
    \E t \in Turns :
        \/ /\ InFlight = {} \/ TotalRows >= MaxMessages - Overlap
           /\ FirstFree(t)
           /\ \E m \in UserTexts, s \in SessionIds : handleMessage(t, m, s)
        \/ Step(t)

Spec == Init /\ [][Next]_vars

\* Turns executed one at a time: a request arrives only when no turn is in
\* flight.
NextSeq ==
    \E t \in Turns :
        \/ /\ InFlight = {}
           /\ FirstFree(t)
           /\ \E m \in UserTexts, s \in SessionIds : handleMessage(t, m, s)
        \/ Step(t)

SpecSeq == Init /\ [][NextSeq]_vars

\* The summarization check called twice in a row: when the check of a turn
\* is over, it is run once more on the conversation record as stored by
\* then, with the same totalMessageCount.  `first` keeps the record and the
\* number of gateway exchanges the first run left.
SecondCheck(t) ==
    /\ pc[t] = "findById"
    /\ frame[t].first = NULL
    /\ findById(frame[t].conversation.id) # NULL
    /\ frame' = [frame EXCEPT
           ![t].conversation = Val(findById(frame[t].conversation.id)),
           ![t].first = Some([conversation |->
                                  Val(findById(frame[t].conversation.id)),
                              calls |-> Len(frame[t].calls)])]
    /\ Goto(t, "checkAndSummarize")
    /\ UNCHANGED <<conversations, messages, gwFaults, storeFaults>>
    /\ UNCHANGED exceptChat

NextTwice == NextSeq \/ \E t \in Turns : SecondCheck(t)

SpecTwice == Init /\ [][NextTwice]_vars

\* GET /chat/history/:sessionId, up to its await.  The route parameter is
\* never empty, so the 400 branch is not taken.
getHistory(t, sessionId) ==
    /\ pc[t] \in {"idle", "done", "threw"}
    /\ frame' = [frame EXCEPT ![t] = [EmptyFrame EXCEPT !.sessionId = sessionId]]
    /\ Goto(t, "getByConversation")
    /\ UNCHANGED <<conversations, messages, gwFaults, storeFaults>>
    /\ UNCHANGED exceptChat

\* messages.map((m) => ({ sender, text, timestamp }))
HistoryBody(rows) ==
    [messages |->
        [i \in 1 .. Len(rows) |->
            [sender |-> rows[i].sender, text |-> rows[i].text,
             timestamp |-> rows[i].createdAt]]]

\* messageRepo.getByConversation(sessionId): every row of the conversation,
\* oldest first; an id that names no conversation has no rows
getByConversation(conversationId) ==
    IF Exists(conversationId)
    THEN FindManyAsc(conversationId, 0, Len(messages[conversationId]))
    ELSE <<>>

\* the await of the history route: res.json(...), or next(error)
GetByConversation(t) ==
    /\ pc[t] = "getByConversation"
    /\ \/ /\ frame' = [frame EXCEPT
                  ![t] = Returned(@, HistoryBody(getByConversation(frame[t].sessionId)))]
          /\ Goto(t, "done")
          /\ UNCHANGED storeFaults
       \/ /\ gwFaults + storeFaults < MaxFaults
          /\ storeFaults' = storeFaults + 1
          /\ frame' = [frame EXCEPT ![t] = Thrown(@, "StoreFailure")]
          /\ Goto(t, "threw")
    /\ UNCHANGED <<conversations, messages, gwFaults>>
    /\ UNCHANGED exceptChat

HistoryIds == {StaleSessionId} \cup (1 .. Len(conversations))

\* Turns one at a time, and history requests between them.
NextHistory ==
    \/ NextSeq
    \/ \E t \in Turns :
          \/ /\ InFlight = {}
             /\ FirstFree(t)
             /\ \E s \in HistoryIds : getHistory(t, s)
          \/ GetByConversation(t)

SpecHistory == Init /\ [][NextHistory]_vars

\* --------------------------------- POST /chat/message and errorHandler
\* process.env.NODE_ENV: not set, or one of the usual values
NodeEnvs == {NULL, Some("production"), Some("development")}

\* The Error a rejected await of handleMessage carries: the message is kept
\* in the frame; a store failure is an error of the Prisma client.
ErrorOf(f) ==
    [name |-> IF f.error = "StoreFailure"
              THEN "PrismaClientKnownRequestError" ELSE "Error",
     message |-> f.error]

\* errorHandler(err, req, res, next): the response it sends; `details` is
\* NULL when the key is absent from the body
errorHandler(err) ==
    IF err.name = "ValidationError"
    THEN [status |-> 400,
          json |-> [error |-> "Validation error",
                    message |-> IF err.message = "" THEN "Invalid input"
                                ELSE err.message]]
    ELSE [status |-> 500,
          json |-> [error |-> "Internal server error",
                    message |-> "An unexpected error occurred. Please try again later.",
                    details |-> IF NODE_ENV = Some("production") THEN NULL
                                ELSE Some(err.message)]]

\* the route handler after its await: res.json(result)
SendResult(t) ==
    /\ pc[t] = "done"
    /\ frame[t].response = NULL
    /\ frame' = [frame EXCEPT
           ![t].response = Some([status |-> 200, json |-> Val(frame[t].returned)])]
    /\ UNCHANGED <<conversations, messages, pc, gwFaults, storeFaults>>
    /\ UNCHANGED exceptChat

\* the route handler's catch: next(error), which Express hands to
\* errorHandler, the last middleware of the app
NextError(t) ==
    /\ pc[t] = "threw"
    /\ frame[t].response = NULL
    /\ frame' = [frame EXCEPT
           ![t].response = Some(errorHandler(ErrorOf(frame[t])))]
    /\ UNCHANGED <<conversations, messages, pc, gwFaults, storeFaults>>
    /\ UNCHANGED exceptChat

InitRoute ==
    /\ IdleChat /\ IdlePrompt /\ IdleLimiter /\ IdleValidator /\ IdleStream
    /\ NODE_ENV \in NodeEnvs

\* Requests one at a time, each answered before the next arrives.
NextRoute ==
    \E t \in Turns :
        \/ /\ InFlight = {}
           /\ FirstFree(t)
           /\ pc[t] = "idle" \/ frame[t].response # NULL
           /\ \E m \in UserTexts, s \in SessionIds : handleMessage(t, m, s)
        \/ Step(t)
        \/ SendResult(t)
        \/ NextError(t)

SpecRoute == InitRoute /\ [][NextRoute]_vars

\* ------------------------------------------- the llm service on its own
\* The texts a summary, a message or the input can be; one has a line
\* break followed by a line that starts with a role tag.
PromptTexts == { <<"hi">>, <<"ok">>, <<"hi", "\n", "Agent:", " ", "ok">> }

Senders == {"user", "ai"}

ChatHistoryMessages == [sender : Senders, text : PromptTexts]

RECURSIVE SeqsUpTo(_, _)
SeqsUpTo(S, n) ==
    IF n = 0 THEN { <<>> }
    ELSE SeqsUpTo(S, n - 1)
            \cup { Append(q, x) : q \in { q \in SeqsUpTo(S, n - 1) : Len(q) = n - 1 },
                                  x \in S }

Params ==
    [summary : {NULL, Some(<<>>)} \cup { Some(x) : x \in PromptTexts },
     rawMessages : SeqsUpTo(ChatHistoryMessages, MaxTail),
     userMessage : { <<"hi">>, <<"ok">> }]

InitPrompt ==
    /\ IdleChat /\ IdleLimiter /\ IdleValidator /\ IdleProcess /\ IdleStream
    /\ params \in Params
    /\ prompt = NoPrompt

\* llmService.generateReply(params)
CallGenerateReply ==
    /\ prompt.generateReply = NULL
    /\ \E r \in GatewayOutcomes :
          prompt' = [prompt EXCEPT !.generateReply =
              Some([prompt |-> generateReplyPrompt(params.summary,
                                   params.rawMessages, params.userMessage),
                    result |-> generateReply(r)])]
    /\ UNCHANGED <<params, exceptPrompt>>

\* llmService.generateReplyStream(params), run to its end
CallGenerateReplyStream ==
    /\ prompt.generateReplyStream = NULL
    /\ \E r \in GatewayOutcomes :
          prompt' = [prompt EXCEPT !.generateReplyStream =
              Some([prompt |-> generateReplyStreamPrompt(params.summary,
                                   params.rawMessages, params.userMessage),
                    result |-> generateReplyStream(r)])]
    /\ UNCHANGED <<params, exceptPrompt>>

NextPrompt == CallGenerateReply \/ CallGenerateReplyStream

SpecPrompt == InitPrompt /\ [][NextPrompt]_vars

\* What model.generateContentStream can do: give chunks, each with a text,
\* then end or throw.
GatewayStreams ==
    [chunks : SeqsUpTo(GatewayTexts, MaxChunks), threw : BOOLEAN]

InitReplyStream ==
    /\ IdleChat /\ IdleLimiter /\ IdleValidator /\ IdleProcess /\ IdleStream
    /\ params \in { q \in Params : q.rawMessages = <<>> }
    /\ prompt = NoPrompt

\* llmService.generateReplyStream(params), consumed to its end
ConsumeReplyStream ==
    /\ prompt.generateReplyStream = NULL
    /\ \E o \in GatewayStreams :
          prompt' = [prompt EXCEPT !.generateReplyStream =
              Some([prompt |-> generateReplyStreamPrompt(params.summary,
                                   params.rawMessages, params.userMessage),
                    answer |-> o,
                    result |-> generateReplyStreamYields(o)])]
    /\ UNCHANGED <<params, exceptPrompt>>

SpecReplyStream == InitReplyStream /\ [][ConsumeReplyStream]_vars

\* ------------------------------------ POST /chat/message, streaming
\* What chatService.handleMessageStream gives the route: fragments
\* { token, sessionId, done }, the last one with done set, unless the
\* stream throws or just ends.
StreamTokens == {"a", "b"}

Fragment(token) == [kind |-> "chunk", token |-> token, done |-> FALSE]
Completion == [kind |-> "chunk", token |-> "", done |-> TRUE]
StreamThrows == [kind |-> "throw", token |-> "", done |-> FALSE]

Streams ==
    { q \o last :
        q \in SeqsUpTo({ Fragment(x) : x \in StreamTokens }, MaxChunks),
        last \in { <<Completion>>, <<StreamThrows>>, <<>> } }

\* the route handler up to its first await: the SSE headers are set, the
\* close handler is registered and the stream is asked for its first item
postMessageStream ==
    /\ sse.at = "idle"
    /\ \E stream \in Streams :
          sse' = [NoStream EXCEPT !.at = "pull", !.stream = stream]
    /\ UNCHANGED exceptStream

\* res.write on the response: nothing goes out once the response has ended
Written(r, data) ==
    [r EXCEPT !.writes = @ + 1,
              !.sent = IF r.ends = 0 THEN Append(@, data) ELSE @]

\* One round of `for await (const chunk of stream)`: the stream gives its
\* next item and the body of the loop runs up to the next await.
NextChunk ==
    /\ sse.at = "pull"
    /\ IF sse.stream = <<>>
       THEN \* the stream is over: res.end()
            sse' = [sse EXCEPT !.at = "ended", !.ends = @ + 1]
       ELSE LET chunk == Head(sse.stream)
                pulled == [sse EXCEPT !.stream = Tail(@), !.pulled = @ + 1]
            IN  IF chunk.kind = "throw"
                THEN \* catch (streamError): the error event, res.end()
                     sse' = [Written(pulled, [error |-> "streamError.message",
                                              done |-> TRUE])
                                EXCEPT !.at = "ended", !.ends = @ + 1]
                ELSE IF chunk.done
                     THEN \* res.write, break, res.end()
                          sse' = [Written(pulled, chunk)
                                     EXCEPT !.at = "ended", !.ends = @ + 1]
                     ELSE sse' = Written(pulled, chunk)
    /\ UNCHANGED exceptStream

\* req.on("close", () => { res.end(); }): the client disconnects while the
\* handler is suspended
Close ==
    /\ sse.at = "pull"
    /\ ~sse.closed
    /\ sse' = [sse EXCEPT !.closed = TRUE, !.ends = @ + 1]
    /\ UNCHANGED exceptStream

NextStream == postMessageStream \/ NextChunk \/ Close

SpecStream == Init /\ [][NextStream]_vars

\* ---------------------------------------------------------- rateLimiter
\* Redis INCR: the key is created at 1, without expiry, when it is missing
Incremented(key) ==
    [redis EXCEPT ![key] =
        IF @.count = 0
        THEN [count |-> 1, ttl |-> NULL, gen |-> @.gen + 1]
        ELSE [@ EXCEPT !.count = @ + 1]]

\* Redis EXPIRE: sets the time to live of an existing key
Expiring(key, seconds) ==
    [redis EXCEPT ![key] =
        IF @.count > 0 THEN [@ EXCEPT !.ttl = Some(seconds)] ELSE @]

\* The tally of a generation is kept while the generation can still pass
\* a request on: while its key exists or a request that it counted is
\* inside rateLimiter.
Live(k, g, store, requests) ==
    \/ g = store[k].gen /\ store[k].count > 0
    \/ \E r \in Slots :
          /\ requests[r].at \notin {"idle", "done"}
          /\ \/ k = ipKey(requests[r].ip) /\ requests[r].ipGen = g
             \/ k = sessionKey(requests[r].sessionId) /\ requests[r].sessionGen = g

\* next() is called for request q after the check of its counters
PassedOn(q) ==
    [k \in Keys |->
        LET g == IF k = ipKey(q.ip) THEN q.ipGen
                 ELSE IF k = sessionKey(q.sessionId) THEN q.sessionGen
                 ELSE 0
            p == IF Len(passed[k]) < g THEN Append(passed[k], 0) ELSE passed[k]
        IN  IF g > 0 THEN [p EXCEPT ![g] = @ + 1] ELSE p]

Tally(p, store, requests) ==
    [k \in Keys |->
        [g \in 1 .. store[k].gen |->
            IF g <= Len(p[k]) /\ Live(k, g, store, requests) THEN p[k][g] ELSE 0]]

CallNext(q) == [q EXCEPT !.nexts = @ + 1, !.at = "done"]

TooManyRequests(q) == [q EXCEPT !.status = 429, !.at = "done"]

\* (variant: the session counter is held against the IP limit)
SessionOver_IpLimit(sessionCount) == sessionCount > IP_MAX_REQUESTS

\* sessionCount > RATE_LIMITS.SESSION.maxRequests
SessionOver(sessionCount) == sessionCount > SESSION_MAX_REQUESTS

\* ipCount > RATE_LIMITS.IP.maxRequests
IpOver(ipCount) == ipCount > IP_MAX_REQUESTS

\* from `if (sessionCount > ...)` to the end of rateLimiter
AfterSession(q) ==
    IF SessionOver(q.sessionCount) THEN TooManyRequests(q) ELSE CallNext(q)

\* from `if (ipCount > ...)` to the next await or the end of rateLimiter
AfterIp(q) ==
    IF IpOver(q.ipCount) THEN TooManyRequests(q)
    ELSE IF q.sessionId # Anonymous THEN [q EXCEPT !.at = "incrSession"]
    ELSE CallNext(q)

\* what a step of request r leaves: the request, the store, the tally
Leaves(r, q, store) ==
    /\ reqs' = [reqs EXCEPT ![r] = q]
    /\ redis' = store
    /\ passed' = Tally(IF q.nexts > reqs[r].nexts /\ ~q.threw
                       THEN PassedOn(q) ELSE passed,
                       store, [reqs EXCEPT ![r] = q])

Inside == { r \in Slots : reqs[r].at \notin {"idle", "done"} }

\* the route calls rateLimiter(req, res, next), up to its first await;
\* sessionId is req.body.sessionId || "anonymous".  The requests answered
\* before are gone.
rateLimiter(r, ip, sessionId) ==
    /\ r \notin Inside
    /\ \A u \in Slots : u < r => u \in Inside
    /\ redis[ipKey(ip)].count + Cardinality(Inside) < MaxCount
    /\ reqs' = [u \in Slots |->
                   IF u = r
                   THEN [NoRequest EXCEPT !.at = "incrIp", !.ip = ip,
                                          !.sessionId = sessionId]
                   ELSE IF u \in Inside THEN reqs[u] ELSE NoRequest]
    /\ UNCHANGED <<redis, passed, used>>
    /\ UNCHANGED exceptLimiter

\* ipCount = await redis.incr(ipKey)
IncrIp(r) ==
    /\ reqs[r].at = "incrIp"
    /\ LET store == Incremented(ipKey(reqs[r].ip))
           q == [reqs[r] EXCEPT !.ipCount = store[ipKey(reqs[r].ip)].count,
                                !.ipGen = store[ipKey(reqs[r].ip)].gen]
       IN  Leaves(r, IF q.ipCount = 1 THEN [q EXCEPT !.at = "expireIp"]
                     ELSE AfterIp(q), store)
    /\ UNCHANGED used
    /\ UNCHANGED exceptLimiter

\* await redis.expire(ipKey, 60)
ExpireIp(r) ==
    /\ reqs[r].at = "expireIp"
    /\ Leaves(r, AfterIp(reqs[r]), Expiring(ipKey(reqs[r].ip), WINDOW_SECONDS))
    /\ UNCHANGED used
    /\ UNCHANGED exceptLimiter

\* sessionCount = await redis.incr(sessionKey)
IncrSession(r) ==
    /\ reqs[r].at = "incrSession"
    /\ LET key == sessionKey(reqs[r].sessionId)
           store == Incremented(key)
           q == [reqs[r] EXCEPT !.sessionCount = store[key].count,
                                !.sessionGen = store[key].gen]
       IN  Leaves(r, IF q.sessionCount = 1 THEN [q EXCEPT !.at = "expireSession"]
                     ELSE AfterSession(q), store)
    /\ UNCHANGED used
    /\ UNCHANGED exceptLimiter

\* await redis.expire(sessionKey, 60)
ExpireSession(r) ==
    /\ reqs[r].at = "expireSession"
    /\ Leaves(r, AfterSession(reqs[r]),
              Expiring(sessionKey(reqs[r].sessionId), WINDOW_SECONDS))
    /\ UNCHANGED used
    /\ UNCHANGED exceptLimiter

\* what the command request r waits for does to the store when it is run
Effect(r) ==
    IF reqs[r].at = "incrIp" THEN Incremented(ipKey(reqs[r].ip))
    ELSE IF reqs[r].at = "expireIp"
         THEN Expiring(ipKey(reqs[r].ip), WINDOW_SECONDS)
    ELSE IF reqs[r].at = "incrSession"
         THEN Incremented(sessionKey(reqs[r].sessionId))
    ELSE Expiring(sessionKey(reqs[r].sessionId), WINDOW_SECONDS)

\* (variant: a Redis failure answers 429)
RedisThrows_FailClosed(r) ==
    /\ reqs[r].at \in {"incrIp", "expireIp", "incrSession", "expireSession"}
    /\ used.faults + used.expiries < MaxEvents
    /\ used' = [used EXCEPT !.faults = @ + 1]
    /\ \E applied \in BOOLEAN :
          Leaves(r, TooManyRequests([reqs[r] EXCEPT !.threw = TRUE]),
                 IF applied THEN Effect(r) ELSE redis)
    /\ UNCHANGED exceptLimiter

\* the awaited Redis command rejects, with or without having been run:
\* catch (error) { next(); }
RedisThrows(r) ==
    /\ reqs[r].at \in {"incrIp", "expireIp", "incrSession", "expireSession"}
    /\ used.faults + used.expiries < MaxEvents
    /\ used' = [used EXCEPT !.faults = @ + 1]
    /\ \E applied \in BOOLEAN :
          Leaves(r, CallNext([reqs[r] EXCEPT !.threw = TRUE]),
                 IF applied THEN Effect(r) ELSE redis)
    /\ UNCHANGED exceptLimiter

\* Redis deletes a key whose time to live is over
KeyExpires(k) ==
    /\ redis[k].count > 0
    /\ redis[k].ttl # NULL
    /\ used.faults + used.expiries < MaxEvents
    /\ used' = [used EXCEPT !.expiries = @ + 1]
    /\ redis' = [redis EXCEPT ![k] = [NoKey EXCEPT !.gen = redis[k].gen]]
    /\ passed' = Tally(passed, redis', reqs)
    /\ UNCHANGED reqs
    /\ UNCHANGED exceptLimiter

Limit(k) ==
    IF Head(k) = "rate_limit:ip:" THEN IP_MAX_REQUESTS ELSE SESSION_MAX_REQUESTS

\* a counter of the request is absent or within Near of its limit
CloseCall(ip, sessionId) ==
    \E k \in {ipKey(ip)} \cup ({sessionKey(sessionId)} \cap Keys) :
        \/ redis[k].count = 0
        \/ /\ redis[k].count >= Limit(k) - Near
           /\ redis[k].count <= Limit(k) + Near

\* Requests arrive at any time and interleave at their awaits; keys expire
\* when their time is over.
NextLimiter ==
    \/ \E r \in Slots :
          \/ \E ip \in Ips, s \in LimiterSessionIds :
                 /\ Inside = {} \/ CloseCall(ip, s)
                 /\ rateLimiter(r, ip, s)
          \/ IncrIp(r)
          \/ ExpireIp(r)
          \/ IncrSession(r)
          \/ ExpireSession(r)
          \/ RedisThrows(r)
    \/ \E k \in Keys : KeyExpires(k)

SpecLimiter == Init /\ [][NextLimiter]_vars

\* ------------------------------------------------------ validateMessage
\* The characters of a message string: white space, a letter, and a block
\* of MAX_MESSAGE_LENGTH - 2 letters.
Block == "aaa..."
MessageChars == {" ", "a", Block}

\* String.prototype.length
RECURSIVE Length(_)
Length(text) ==
    IF text = <<>> THEN 0
    ELSE (IF Head(text) = Block THEN MAX_MESSAGE_LENGTH - 2 ELSE 1)
            + Length(Tail(text))

\* what req.body.message can be after express.json()
MessageValues ==
    { Undefined, <<"null">>, <<"number", 0>>, <<"number", 7>>,
      <<"boolean", FALSE>>, <<"boolean", TRUE>>, <<"object">> }
        \cup { <<"string", x>> : x \in SeqsUpTo(MessageChars, MaxChars) }

\* !message
Falsy(message) ==
    \/ Head(message) \in {"undefined", "null"}
    \/ Head(message) = "number" /\ message[2] = 0
    \/ Head(message) = "boolean" /\ ~message[2]
    \/ Head(message) = "string" /\ message[2] = <<>>

BadRequest(text) ==
    [next |-> FALSE,
     res |-> Some([status |-> 400,
                   json |-> [error |-> "Validation error", message |-> text]])]

\* (variant: the length is checked before the message is trimmed)
Validate_RawLength(message) ==
    IF Falsy(message) THEN BadRequest("Message is required")
    ELSE IF Head(message) # "string" THEN BadRequest("Message must be a string")
    ELSE IF Length(Trim(message[2])) = 0
         THEN BadRequest("Message cannot be empty or whitespace-only")
    ELSE IF Length(message[2]) > MAX_MESSAGE_LENGTH
         THEN BadRequest("Message exceeds maximum length of 5000 characters")
    ELSE [next |-> TRUE, message |-> <<"string", Trim(message[2])>>]

\* validateMessage: the response it sends, or the message it leaves in
\* req.body when it calls next()
Validate(message) ==
    IF Falsy(message) THEN BadRequest("Message is required")
    ELSE IF Head(message) # "string" THEN BadRequest("Message must be a string")
    ELSE IF Length(Trim(message[2])) = 0
         THEN BadRequest("Message cannot be empty or whitespace-only")
    ELSE IF Length(Trim(message[2])) > MAX_MESSAGE_LENGTH
         THEN BadRequest("Message exceeds maximum length of 5000 characters")
    ELSE [next |-> TRUE, message |-> <<"string", Trim(message[2])>>]

InitValidate ==
    /\ IdleChat /\ IdlePrompt /\ IdleLimiter /\ IdleProcess /\ IdleStream
    /\ req \in { Received(v) : v \in MessageValues }
    /\ res = NULL
    /\ stage = "validateMessage"
    /\ invoked = NULL

\* validateMessage(req, res, next)
validateMessage ==
    /\ stage = "validateMessage"
    /\ LET v == Validate(req.body.message)
       IN  IF v.next
           THEN /\ req' = [req EXCEPT !.body.message = v.message]
                /\ stage' = "handler"
                /\ UNCHANGED res
           ELSE /\ res' = v.res
                /\ stage' = "end"
                /\ UNCHANGED req
    /\ UNCHANGED invoked
    /\ UNCHANGED exceptValidator

\* the handler of POST /chat/message reads message from req.body and calls
\* the chat service with it
Handler ==
    /\ stage = "handler"
    /\ invoked' = Some(req.body.message)
    /\ stage' = "end"
    /\ UNCHANGED <<req, res>>
    /\ UNCHANGED exceptValidator

NextValidate == validateMessage \/ Handler

SpecValidate == InitValidate /\ [][NextValidate]_vars

\* ===================================================================
\* Properties
\* ===================================================================
ConvIds == 1 .. Len(conversations)

\* the turn has gone through the summarization check and not yet returned
AfterCheck == {"findById", "getLastN", "generateReply", "saveReply"}

\* the turn holds the tail window it read
HoldsTail == {"generateReply", "saveReply"}

\* createdAt of the rows of a list, in order
Positions(rows) == [i \in 1 .. Len(rows) |-> rows[i].createdAt]

\* the positions a .. b, in order
Range(a, b) == [i \in 1 .. (b - a + 1) |-> a + i - 1]

\* the exchanges with the gateway made by the summarization check of a turn
SummaryCalls(t) ==
    { i \in 1 .. Len(frame[t].calls) : frame[t].calls[i].fn # "generateReply" }

\* C1: whenever a conversation's stored summary is non-null, its stored
\* summaryUntil is at most its number of stored messages minus
\* RAW_WINDOW_SIZE, in every state of turns executed one at a time.
C1_SummaryLeavesRawWindow ==
    \A c \in ConvIds :
        conversations[c].summary # NULL =>
            /\ conversations[c].summaryUntil # NULL
            /\ Val(conversations[c].summaryUntil)
                   <= Len(messages[c]) - RAW_WINDOW_SIZE

\* a later turn is in the middle of its work on a summarized conversation
C1_Witness ==
    \E t \in Turns :
        /\ pc[t] = "getCount"
        /\ Exists(frame[t].conversation.id)
        /\ conversations[frame[t].conversation.id].summary # NULL

\* C2: the tail window a turn has read holds no message at a position <=
\* the summaryUntil of the record the turn re-read, and that record is still
\* the stored one: the summarization check and its write were over before
\* the tail was read.
C2_TailAfterSummary ==
    \A t \in Turns :
        pc[t] \in HoldsTail =>
            /\ frame[t].rawMessages # <<>>
            /\ \A i \in 1 .. Len(frame[t].rawMessages) :
                   frame[t].rawMessages[i].createdAt
                       > OrZero(frame[t].updatedConversation.summaryUntil)
            /\ Some(frame[t].updatedConversation)
                   = findById(frame[t].conversation.id)

\* the turn that wrote a summary holds its tail window
C2_Witness ==
    \E t \in Turns :
        /\ pc[t] = "generateReply"
        /\ SummaryCalls(t) # {}
        /\ frame[t].updatedConversation.summaryUntil # NULL

\* C3 (as claimed): at the reply-generation call every stored message of
\* the conversation is at a position <= summaryUntil of the summary passed
\* or in the tail window passed.
C3_EveryMessageCovered ==
    \A t \in Turns :
        pc[t] = "saveReply" =>
            \A k \in 1 .. Len(messages[frame[t].conversation.id]) :
                \/ k <= OrZero(frame[t].updatedConversation.summaryUntil)
                \/ \E i \in 1 .. Len(frame[t].rawMessages) :
                       frame[t].rawMessages[i].createdAt = k

\* C3 (amended): at the reply-generation call of turns executed one at a
\* time, the stored messages that are neither at a position <= summaryUntil
\* of the re-read record nor in the tail window are exactly those at
\* positions summaryUntil + 1 .. count - 5; there are at most 15 of them
\* while no summary is stored and at most 5 once one is.
C3_CoveredUpToGap ==
    \A t \in Turns :
        pc[t] = "saveReply" =>
            LET f == frame[t]
                n == Len(messages[f.conversation.id])
                until == OrZero(f.updatedConversation.summaryUntil)
            IN  /\ \A k \in 1 .. n :
                       ( \/ k <= until
                         \/ \E i \in 1 .. Len(f.rawMessages) :
                                f.rawMessages[i].createdAt = k )
                           <=> ~(until < k /\ k <= n - RAW_WINDOW_SIZE)
                /\ n - RAW_WINDOW_SIZE - until
                       <= IF f.updatedConversation.summary = NULL
                          THEN SUMMARY_THRESHOLD - RAW_WINDOW_SIZE
                          ELSE RE_SUMMARY_THRESHOLD - RAW_WINDOW_SIZE

\* a summary is passed and 5 stored messages are in neither
C3_Witness ==
    \E t \in Turns :
        /\ pc[t] = "saveReply"
        /\ Truthy(frame[t].updatedConversation.summary)
        /\ Len(messages[frame[t].conversation.id]) - RAW_WINDOW_SIZE
               - Val(frame[t].updatedConversation.summaryUntil)
                   = RE_SUMMARY_THRESHOLD - RAW_WINDOW_SIZE

\* no summary is stored and 15 stored messages are in neither
C3_WitnessNoSummary ==
    \E t \in Turns :
        /\ pc[t] = "saveReply"
        /\ frame[t].updatedConversation.summary = NULL
        /\ Len(messages[frame[t].conversation.id]) - RAW_WINDOW_SIZE
               = SUMMARY_THRESHOLD - RAW_WINDOW_SIZE

\* C4: no step of turns executed one at a time lowers a stored summaryUntil
\* or takes a stored summary away; a summary transition replaces the one
\* summary value of the record by the text it generated.
C4_SummaryUntilNeverShrinks ==
    [][\A c \in ConvIds :
          /\ OrZero(conversations'[c].summaryUntil)
                 >= OrZero(conversations[c].summaryUntil)
          /\ conversations[c].summary # NULL => conversations'[c].summary # NULL
          /\ conversations'[c] # conversations[c] =>
                 \E t \in Turns :
                     /\ pc[t] \in {"csUpdate", "rsUpdate"}
                     /\ conversations'[c].summary = Some(frame[t].summaryText)]_vars

\* a recompression has replaced the summary of an initial compression
C4_Witness ==
    \E t \in Turns :
        /\ pc[t] = "findById"
        /\ frame[t].conversation.summaryUntil # NULL
        /\ frame[t].newMessageEnd > 0
        /\ conversations[frame[t].conversation.id].summaryUntil
               = Some(frame[t].newMessageEnd)
        /\ frame[t].newMessageEnd > Val(frame[t].conversation.summaryUntil)

\* C5: a check that ran on a conversation without summary with
\* totalMessageCount = N > 20 fed the gateway exactly the N - 5 oldest
\* messages in creation order and left summary non-null and
\* summaryUntil = N - 5; the tail window of the turn is the last 5 messages
\* (17 to 21 for N = 21).
C5_InitialCompression ==
    \A t \in Turns :
        LET f == frame[t]
            N == f.totalMessageCount
            c == f.conversation.id
        IN  ( /\ pc[t] \in AfterCheck
              /\ ~Truthy(f.conversation.summary)
              /\ N > SUMMARY_THRESHOLD ) =>
                /\ Len(f.calls) >= 1
                /\ f.calls[1].fn = "generateSummary"
                /\ f.calls[1].messages = SubSeq(messages[c], 1, N - RAW_WINDOW_SIZE)
                /\ Positions(f.calls[1].messages) = Range(1, N - RAW_WINDOW_SIZE)
                /\ SummaryCalls(t) = {1}
                /\ conversations[c].summary # NULL
                /\ conversations[c].summaryUntil = Some(N - RAW_WINDOW_SIZE)
                /\ pc[t] \in HoldsTail =>
                       Positions(f.rawMessages) = Range(N - RAW_WINDOW_SIZE + 1, N)

\* Scenario A: the 21st message arrives, summary until 16, tail 17 to 21
C5_Witness ==
    \E t \in Turns :
        /\ pc[t] = "generateReply"
        /\ frame[t].conversation.summary = NULL
        /\ frame[t].totalMessageCount = 21
        /\ conversations[frame[t].conversation.id].summaryUntil = Some(16)
        /\ Positions(frame[t].rawMessages) = <<17, 18, 19, 20, 21>>

C7_NoOpWithinBounds ==
    \A t \in Turns :
        LET f == frame[t]
            N == f.totalMessageCount
            c == f.conversation.id
        IN  ( /\ pc[t] \in {"findById", "getLastN", "generateReply"}
              /\ \/ /\ ~Truthy(f.conversation.summary)
                    /\ N <= SUMMARY_THRESHOLD
                 \/ /\ Truthy(f.conversation.summary)
                    /\ f.conversation.summaryUntil # NULL
                    /\ N - Val(f.conversation.summaryUntil)
                           <= RE_SUMMARY_THRESHOLD ) =>
                /\ f.calls = <<>>
                /\ conversations[c].summary = f.conversation.summary
                /\ conversations[c].summaryUntil = f.conversation.summaryUntil

\* the raw window is exactly 10 and the check has passed
C7_Witness ==
    \E t \in Turns :
        /\ pc[t] = "findById"
        /\ Truthy(frame[t].conversation.summary)
        /\ frame[t].totalMessageCount
               - Val(frame[t].conversation.summaryUntil) = RE_SUMMARY_THRESHOLD
        /\ frame[t].calls = <<>>

\* exactly 20 messages and no summary, and the check has passed
C7_WitnessAtThreshold ==
    \E t \in Turns :
        /\ pc[t] = "findById"
        /\ frame[t].conversation.summary = NULL
        /\ frame[t].totalMessageCount = SUMMARY_THRESHOLD
        /\ frame[t].calls = <<>>

\* C8 (as claimed): the second of two checks in a row, run with the same
\* totalMessageCount on the record the first one left, makes no gateway
\* call and changes neither summary nor summaryUntil.
C8_SecondCheckIsNoOp ==
    \A t \in Turns :
        (frame[t].first # NULL /\ pc[t] \notin {"done", "threw"}) =>
            /\ SummaryCalls(t) \subseteq 1 .. Val(frame[t].first).calls
            /\ findById(frame[t].conversation.id)
                   = Some(Val(frame[t].first).conversation)

\* C9: when the gateway threw or answered the empty text to the reply call
\* of a turn, the reply of the turn is the fallback string; the turn returns
\* it and has stored it as its assistant message, and only a store failure,
\* never the gateway's, makes the turn throw.
GatewayFailedOnReply(t) ==
    \E i \in 1 .. Len(frame[t].calls) :
        /\ frame[t].calls[i].fn = "generateReply"
        /\ frame[t].calls[i].answer.threw \/ frame[t].calls[i].answer.text = <<>>

C9_FallbackReply ==
    \A t \in Turns :
        GatewayFailedOnReply(t) =>
            /\ pc[t] \in {"saveReply", "done", "threw"}
            /\ frame[t].reply = Some(FALLBACK_REPLY)
            /\ pc[t] = "threw" => frame[t].error = "StoreFailure"
            /\ pc[t] = "done" =>
                   /\ frame[t].returned # NULL
                   /\ Val(frame[t].returned).reply = FALLBACK_REPLY
                   /\ frame[t].aiIndex
                          \in 1 .. Len(messages[frame[t].conversation.id])
                   /\ LET m == messages[frame[t].conversation.id][frame[t].aiIndex]
                      IN  m.sender = "ai" /\ m.text = FALLBACK_REPLY

\* a turn whose reply call failed has returned
C9_Witness ==
    \E t \in Turns : pc[t] = "done" /\ GatewayFailedOnReply(t)

\* C10: a turn that has made a gateway call, or has returned, has its user
\* message in the message table; a turn whose append failed made no gateway
\* call.
C10_InputStoredFirst ==
    \A t \in Turns :
        /\ (frame[t].calls # <<>> \/ frame[t].returned # NULL) =>
               /\ frame[t].userIndex
                      \in 1 .. Len(messages[frame[t].conversation.id])
               /\ LET m == messages[frame[t].conversation.id][frame[t].userIndex]
                  IN  m.sender = "user" /\ m.text = frame[t].message
        /\ (pc[t] = "threw" /\ frame[t].userIndex = 0) =>
               frame[t].calls = <<>> /\ frame[t].returned = NULL

\* the append of the user message failed
C10_Witness ==
    \E t \in Turns :
        /\ pc[t] = "threw"
        /\ frame[t].conversation.id # 0
        /\ frame[t].userIndex = 0

\* a turn has asked the gateway for a summary and for its reply
C10_WitnessSummaryCall ==
    \E t \in Turns :
        /\ pc[t] = "saveReply"
        /\ Len(frame[t].calls) = 2

\* C11: a turn throws only at an await of a store operation; the step that
\* throws returns no reply and leaves both tables as they were, so the user
\* message appended at step 2 and a summary written at step 4 stay stored
\* and no assistant message follows; a gateway call that threw or answered
\* blank moves the turn to its next step, never to the throw.
GatewaySteps == {"csGenerate", "rsGenerate", "generateReply"}

C11_StoreFailurePropagates ==
    [][\A t \in Turns :
          /\ (pc[t] # "threw" /\ pc'[t] = "threw") =>
                 /\ pc[t] \in StoreSteps
                 /\ frame'[t].returned = NULL
                 /\ frame'[t].error # "none"
                 /\ frame'[t].aiIndex = 0
                 /\ messages' = messages
                 /\ conversations' = conversations
                 /\ frame[t].userIndex > 0 =>
                        LET rows == messages'[frame'[t].conversation.id]
                        IN  /\ frame'[t].userIndex = Len(rows)
                            /\ rows[Len(rows)].sender = "user"
                            /\ rows[Len(rows)].text = frame'[t].message
          /\ (pc[t] \in GatewaySteps /\ pc'[t] # pc[t]) =>
                 /\ pc'[t] \in {"csUpdate", "rsUpdate", "saveReply"}
                 /\ frame'[t].error = "none"]_vars

\* the store failed after the turn had written a summary: the user message
\* and the summary are stored, no assistant message is
C11_Witness ==
    \E t \in Turns :
        /\ pc[t] = "threw"
        /\ frame[t].userIndex > 0
        /\ frame[t].userIndex = Len(messages[frame[t].conversation.id])
        /\ Len(frame[t].calls) >= 1
        /\ frame[t].calls[1].fn = "generateSummary"
        /\ conversations[frame[t].conversation.id].summary
               = Some(Trim(frame[t].calls[1].answer.text))

\* a gateway call threw and the turn went on to return
C11_WitnessGatewayThrew ==
    \E t \in Turns :
        /\ pc[t] = "done"
        /\ \E i \in 1 .. Len(frame[t].calls) : frame[t].calls[i].answer.threw

\* C12: step 1 takes the conversation the supplied sessionId names when it
\* names a stored one, and otherwise (sessionId absent or naming none)
\* creates a conversation with a fresh id; the turn keeps that conversation
\* to its end, appends its user and its assistant message to it, and
\* returns its id as sessionId.
C12_ReturnsConversationUsed ==
    [][\A t \in Turns :
          /\ (pc[t] = "findOrCreate" /\ pc'[t] = "saveUser") =>
                 IF frame[t].sessionId \in 1 .. Len(conversations)
                 THEN /\ frame'[t].conversation.id = frame[t].sessionId
                      /\ conversations' = conversations
                 ELSE /\ Len(conversations') = Len(conversations) + 1
                      /\ SubSeq(conversations', 1, Len(conversations))
                             = conversations
                      /\ frame'[t].conversation.id = Len(conversations')
                      /\ frame'[t].conversation.id # frame[t].sessionId
                      /\ messages'[Len(conversations')] = <<>>
          /\ (pc[t] \in StoreSteps \cup GatewaySteps \cup {"checkAndSummarize"}
                  /\ pc[t] # "findOrCreate") =>
                 frame'[t].conversation.id = frame[t].conversation.id
          /\ (pc[t] = "saveReply" /\ pc'[t] = "done") =>
                 /\ frame'[t].returned # NULL
                 /\ LET id == Val(frame'[t].returned).sessionId
                        rows == messages'[id]
                        f == frame'[t]
                    IN  /\ id = frame[t].conversation.id
                        /\ frame[t].sessionId \in 1 .. Len(conversations)
                               => id = frame[t].sessionId
                        /\ 0 < f.userIndex /\ f.userIndex < f.aiIndex
                        /\ f.aiIndex = Len(rows)
                        /\ rows[f.userIndex].sender = "user"
                        /\ rows[f.userIndex].text = f.message
                        /\ rows[f.aiIndex].sender = "ai"
                        /\ rows[f.aiIndex].text = Val(f.reply)]_vars

\* a turn called with a sessionId that names no conversation has returned
\* the id of the conversation it created
C12_Witness ==
    \E t \in Turns :
        /\ pc[t] = "done"
        /\ frame[t].sessionId = StaleSessionId
        /\ Val(frame[t].returned).sessionId = Len(conversations)

\* a turn called with the id of a stored conversation has returned it
C12_WitnessExisting ==
    \E t \in Turns :
        /\ pc[t] = "done"
        /\ Exists(frame[t].sessionId)
        /\ Val(frame[t].returned).sessionId = frame[t].sessionId
        /\ frame[t].userIndex > 2

\* C13: every step of a turn, of the summarization check and of a history
\* request leaves each stored message row as it is and in its place: a
\* conversation's rows are only ever extended, by one row, at step 2 or
\* step 8 of a turn; a turn that returns has extended its conversation by
\* exactly two rows, its user message and right after it its assistant
\* message.
C13_MessagesOnlyAppended ==
    [][/\ Len(messages') >= Len(messages)
       /\ \A c \in 1 .. Len(messages) :
              /\ Len(messages'[c]) >= Len(messages[c])
              /\ SubSeq(messages'[c], 1, Len(messages[c])) = messages[c]
              /\ Len(messages'[c]) > Len(messages[c]) =>
                     /\ Len(messages'[c]) = Len(messages[c]) + 1
                     /\ \E t \in Turns :
                            /\ frame[t].conversation.id = c
                            /\ \/ pc[t] = "saveUser" /\ pc'[t] = "getCount"
                               \/ pc[t] = "saveReply" /\ pc'[t] = "done"
       /\ \A t \in Turns :
              (pc[t] = "saveReply" /\ pc'[t] = "done") =>
                  LET f == frame'[t]
                      rows == messages'[f.conversation.id]
                  IN  /\ f.userIndex > 0
                      /\ f.aiIndex = f.userIndex + 1
                      /\ Len(rows) = (f.userIndex - 1) + 2
                      /\ rows[f.userIndex].sender = "user"
                      /\ rows[f.aiIndex].sender = "ai"]_vars

\* a history request has answered with all the rows of a conversation on
\* which a summary was written
C13_Witness ==
    \E t \in Turns :
        /\ pc[t] = "done"
        /\ Exists(frame[t].sessionId)
        /\ frame[t].userIndex = 0
        /\ frame[t].returned
               = Some(HistoryBody(messages[frame[t].sessionId]))
        /\ conversations[frame[t].sessionId].summary # NULL
        /\ Len(messages[frame[t].sessionId]) > SUMMARY_THRESHOLD

\* a turn has returned after a recompression
C13_WitnessTurn ==
    \E t \in Turns :
        /\ pc[t] = "done"
        /\ frame[t].aiIndex = MaxMessages
        /\ Len(frame[t].calls) = 2
        /\ frame[t].calls[1].fn = "generateReSummary"

\* C14: the prompt of generateReply and of generateReplyStream is, up to
\* the separators between its parts, the system prompt, then the summary
\* between its two markers (there exactly when the summary is neither null
\* nor empty), then the tail messages in the order given, each as its role
\* tag (Customer: for sender user, Agent: otherwise) and its text, then the
\* input as a Customer: line; the two functions build the same prompt from
\* the same parameters.
Separators == {"\n", " ", "[Recent conversation]"}

Content(text) == SelectSeq(text, LAMBDA x : x \notin Separators)

RECURSIVE TaggedTail(_)
TaggedTail(msgs) ==
    IF msgs = <<>> THEN <<>>
    ELSE <<IF Head(msgs).sender = "user" THEN "Customer:" ELSE "Agent:">>
            \o Head(msgs).text \o TaggedTail(Tail(msgs))

CanonicalLayout(p) ==
    <<SYSTEM_PROMPT>>
    \o (IF p.summary # NULL /\ Val(p.summary) # <<>>
        THEN <<"[Previous conversation summary]">> \o Val(p.summary)
                \o <<"[End of summary]">>
        ELSE <<>>)
    \o TaggedTail(p.rawMessages)
    \o <<"Customer:">> \o p.userMessage \o <<"Agent:">>

Tokens(text) == { text[i] : i \in 1 .. Len(text) }

C14_WitnessBare ==
    /\ prompt.generateReply # NULL
    /\ prompt.generateReplyStream # NULL
    /\ params.summary = NULL
    /\ params.rawMessages = <<>>

\* C15 (as claimed): the prompt of every call made to the language model,
\* the calls that generate a summary or a re-summary included, holds the
\* system prompt.
C15_SystemPromptInEveryCall ==
    \A t \in Turns :
        \A i \in 1 .. Len(frame[t].calls) :
            SYSTEM_PROMPT \in Tokens(PromptOf(frame[t].calls[i]))

\* C16 (as claimed): the summary and the ordered tail list can be read back
\* from the prompt generateReply rendered, whatever the texts hold.  A
\* re-parsing is a function of the prompt alone, so there is one exactly
\* when no other summary or tail list renders to the same prompt (a null
\* and an empty summary are taken as the same: neither is rendered).
RenderedSummary(summary) == IF Truthy(summary) THEN summary ELSE NULL

C16_PromptRoundTrip ==
    prompt.generateReply # NULL =>
        \A q \in Params :
            generateReplyPrompt(q.summary, q.rawMessages, q.userMessage)
                    = Val(prompt.generateReply).prompt
                => /\ RenderedSummary(q.summary) = RenderedSummary(params.summary)
                   /\ q.rawMessages = params.rawMessages

\* C17: of the requests one generation of a rate-limit key has counted (one
\* window: from the INCR that creates the key to its expiry), next() is
\* called after the check for at most 20 when it is an IP key and at most 5
\* when it is a session key, also when requests interleave at their awaits;
\* a request whose Redis commands all succeeded is answered 429 and not
\* passed on exactly when the IP counter gave it more than 20 or the
\* session counter more than 5, and is passed on once otherwise.
C17_AtMostLimitPerWindow ==
    /\ \A k \in Keys :
           \A g \in 1 .. Len(passed[k]) : passed[k][g] <= Limit(k)
    /\ \A r \in Slots :
           (reqs[r].at = "done" /\ ~reqs[r].threw) =>
               IF \/ reqs[r].ipCount > IP_MAX_REQUESTS
                  \/ reqs[r].sessionCount > SESSION_MAX_REQUESTS
               THEN reqs[r].status = 429 /\ reqs[r].nexts = 0
               ELSE reqs[r].status = 0 /\ reqs[r].nexts = 1

\* the 21st request of a window from one IP is answered 429 while another
\* request is inside rateLimiter, and 20 were passed on
C17_Witness ==
    \E r \in Slots :
        /\ reqs[r].at = "done"
        /\ reqs[r].status = 429
        /\ reqs[r].ipCount = IP_MAX_REQUESTS + 1
        /\ Inside # {}
        /\ used.faults = 0
        /\ passed[ipKey(reqs[r].ip)][reqs[r].ipGen] = IP_MAX_REQUESTS

\* the 6th request of a window with one sessionId is answered 429, and 5
\* were passed on
C17_WitnessSession ==
    \E r \in Slots :
        /\ reqs[r].at = "done"
        /\ reqs[r].status = 429
        /\ reqs[r].sessionCount = SESSION_MAX_REQUESTS + 1
        /\ used.faults = 0
        /\ passed[sessionKey(reqs[r].sessionId)][reqs[r].sessionGen]
               = SESSION_MAX_REQUESTS

\* C18: a request for which a Redis command threw inside rateLimiter has
\* had next() called exactly once and no 429; no request has next() called
\* twice, or is both answered 429 and passed on.
C18_FailOpen ==
    \A r \in Slots :
        /\ reqs[r].nexts <= 1
        /\ reqs[r].status = 429 => reqs[r].nexts = 0
        /\ reqs[r].threw =>
               /\ reqs[r].at = "done"
               /\ reqs[r].nexts = 1
               /\ reqs[r].status = 0

\* a Redis command threw for a request that came after the IP limit was
\* reached, and the request was passed on
C18_Witness ==
    \E r \in Slots :
        /\ reqs[r].threw
        /\ reqs[r].nexts = 1
        /\ redis[ipKey(reqs[r].ip)].count > IP_MAX_REQUESTS

\* C19 (as claimed): every rate-limit key in Redis has an expiry set, but
\* for the moment between the INCR that created it and the EXPIRE of the
\* request that got the count 1.
C19_EveryKeyExpires ==
    \A k \in Keys :
        redis[k].count > 0 =>
            \/ redis[k].ttl # NULL
            \/ \E r \in Slots :
                  \/ reqs[r].at = "expireIp" /\ k = ipKey(reqs[r].ip)
                  \/ /\ reqs[r].at = "expireSession"
                     /\ k = sessionKey(reqs[r].sessionId)

\* C20: validateMessage calls next() exactly when the message received is
\* a string whose trimmed value is not empty and at most 5000 characters
\* long, and then req.body.message is the trimmed value; otherwise it
\* answers 400 "Validation error", leaves the chain there and the chat
\* service is not called; the message the chat service is called with is a
\* trimmed, non-empty string of at most 5000 characters.
Acceptable(message) ==
    /\ Head(message) = "string"
    /\ Length(Trim(message[2])) >= 1
    /\ Length(Trim(message[2])) <= MAX_MESSAGE_LENGTH

C20_ValidateMessage ==
    /\ stage # "validateMessage" =>
           IF Acceptable(req.received)
           THEN /\ res = NULL
                /\ req.body.message = <<"string", Trim(req.received[2])>>
                /\ stage = "handler" \/ invoked # NULL
           ELSE /\ res # NULL
                /\ Val(res).status = 400
                /\ Val(res).json.error = "Validation error"
                /\ stage = "end"
                /\ invoked = NULL
                /\ req.body.message = req.received
    /\ invoked # NULL =>
           /\ Head(Val(invoked)) = "string"
           /\ Val(invoked)[2] # <<>>
           /\ Trim(Val(invoked)[2]) = Val(invoked)[2]
           /\ Length(Val(invoked)[2]) <= MAX_MESSAGE_LENGTH

\* a message of 5001 characters whose trimmed value has 5000 has reached
\* the chat service, trimmed
C20_Witness ==
    /\ invoked # NULL
    /\ Length(req.received[2]) = MAX_MESSAGE_LENGTH + 1
    /\ Length(Val(invoked)[2]) = MAX_MESSAGE_LENGTH

\* a message whose trimmed value has 5001 characters was answered 400
C20_WitnessTooLong ==
    /\ res # NULL
    /\ Head(req.received) = "string"
    /\ Length(Trim(req.received[2])) = MAX_MESSAGE_LENGTH + 1

\* C21 (as claimed): the response to a request during which a store
\* operation failed carries nowhere the message of the error that was thrown.
C21_NoErrorMessageInResponse ==
    \A t \in Turns :
        (frame[t].error = "StoreFailure" /\ frame[t].response # NULL) =>
            LET body == Val(frame[t].response).json
            IN  /\ body.error # frame[t].error
                /\ body.message # frame[t].error
                /\ body.details # Some(frame[t].error)

\* the summarization check of turn t ran with message 27 as the newest, on a
\* conversation whose (non-empty) summary covered messages 1 to 16
Message27OnSummary16(t) ==
    /\ pc[t] \in AfterCheck
    /\ frame[t].totalMessageCount = 27
    /\ Truthy(frame[t].conversation.summary)
    /\ frame[t].conversation.summaryUntil = Some(16)

FailedOrEmpty(r) == r.threw \/ r.text = <<>>

\* the placeholder a summary call that failed is recovered into
Placeholder(call) ==
    IF call.fn = "generateSummary"
    THEN <<"Conversation summary: ", ToString(Len(call.messages)),
           " messages exchanged. Customer inquiries and agent responses recorded.">>
    ELSE Val(call.summary)
            \o <<"\n\nAdditional messages: ", ToString(Len(call.messages)),
                  " more messages exchanged.">>

\* C23: when the gateway failed or answered with the empty text in the
\* summary call of a turn, the summary text of the turn is the placeholder,
\* non-null and non-empty; until the conversation update the stored summary
\* and summaryUntil are both as the turn found them, after it the stored
\* summary is the placeholder and summaryUntil is totalMessageCount - 5;
\* and the turn does not throw, unless a store call fails: it goes on to
\* the reply.
C23_PlaceholderSummary ==
    \A t \in Turns :
        \A i \in SummaryCalls(t) :
            ( /\ FailedOrEmpty(frame[t].calls[i].answer)
              /\ frame[t].error # "StoreFailure" ) =>
                LET f == frame[t]
                    c == f.conversation.id
                IN  /\ pc[t] \in {"csUpdate", "rsUpdate"} \cup AfterCheck \cup {"done"}
                    /\ f.error = "none"
                    /\ pc[t] \in {"csUpdate", "rsUpdate"} =>
                           /\ f.summaryText = Placeholder(f.calls[i])
                           /\ conversations[c].summary = f.conversation.summary
                           /\ conversations[c].summaryUntil
                                  = f.conversation.summaryUntil
                    /\ pc[t] \in AfterCheck =>
                           /\ f.summaryText = Placeholder(f.calls[i])
                           /\ conversations[c].summary = Some(Placeholder(f.calls[i]))
                           /\ Truthy(conversations[c].summary)
                           /\ conversations[c].summaryUntil
                                  = Some(f.totalMessageCount - RAW_WINDOW_SIZE)
                    /\ pc[t] = "done" =>
                           /\ f.calls[Len(f.calls)].fn = "generateReply"
                           /\ f.aiIndex > 0

\* the gateway threw in createSummary, the placeholder was stored and the
\* turn has asked the gateway for the reply
C23_Witness ==
    \E t \in Turns :
        /\ pc[t] = "saveReply"
        /\ Len(frame[t].calls) = 2
        /\ frame[t].calls[1].fn = "generateSummary"
        /\ frame[t].calls[1].answer.threw
        /\ conversations[frame[t].conversation.id].summaryUntil
               = Some(frame[t].totalMessageCount - RAW_WINDOW_SIZE)

\* the gateway answered with the empty text in reSummarize, and the
\* placeholder was stored
C23_WitnessReSummarize ==
    \E t \in Turns :
        /\ pc[t] = "saveReply"
        /\ frame[t].calls[1].fn = "generateReSummary"
        /\ ~frame[t].calls[1].answer.threw
        /\ frame[t].calls[1].answer.text = <<>>
        /\ conversations[frame[t].conversation.id].summary
               = Some(Placeholder(frame[t].calls[1]))

\* C24 (as claimed): with turns on the same conversation interleaved at
\* their awaits, no conversation update of a turn replaces a stored
\* summaryUntil by a smaller value or by null.
C24_NoTurnLowersSummaryUntil ==
    [][ \A t \in Turns :
            (pc[t] \in {"csUpdate", "rsUpdate"} /\ pc'[t] = "findById") =>
                LET c == frame[t].conversation.id
                IN  conversations[c].summaryUntil # NULL =>
                        /\ conversations'[c].summaryUntil # NULL
                        /\ Val(conversations'[c].summaryUntil)
                               >= Val(conversations[c].summaryUntil) ]_vars

\* C25: with turns interleaved at their awaits, a turn whose conversation
\* record, as read in step 1, has no summary and whose totalMessageCount is
\* above 20 leaves the summarization check only through the update of
\* createSummary, whatever the stored record has become meanwhile: it has
\* asked the gateway once, for a summary of messages 1 to
\* totalMessageCount - 5, and writes summary and summaryUntil.
C25_CheckUsesSnapshot ==
    [][ \A t \in Turns :
            ( /\ pc[t] \notin AfterCheck
              /\ pc'[t] \in AfterCheck
              /\ ~Truthy(frame[t].conversation.summary)
              /\ frame[t].totalMessageCount > SUMMARY_THRESHOLD ) =>
                LET f == frame[t]
                    c == f.conversation.id
                IN  /\ pc[t] = "csUpdate"
                    /\ Len(f.calls) = 1
                    /\ f.calls[1].fn = "generateSummary"
                    /\ Positions(f.calls[1].messages)
                           = Range(1, f.totalMessageCount - RAW_WINDOW_SIZE)
                    /\ conversations'[c].summary = Some(f.summaryText)
                    /\ conversations'[c].summaryUntil
                           = Some(f.totalMessageCount - RAW_WINDOW_SIZE) ]_vars

\* two turns in flight on the same conversation have both run createSummary:
\* each has asked the gateway for an initial summary and has written it
C25_Witness ==
    /\ pc[1] \in AfterCheck
    /\ pc[2] \in AfterCheck
    /\ frame[1].conversation.id = frame[2].conversation.id
    /\ Len(frame[1].calls) >= 1
    /\ Len(frame[2].calls) >= 1
    /\ frame[1].calls[1].fn = "generateSummary"
    /\ frame[2].calls[1].fn = "generateSummary"
    /\ frame[1].totalMessageCount # frame[2].totalMessageCount

\* turn t is reading its tail window
ReadsTail(t) == pc[t] = "getLastN" /\ pc'[t] = "generateReply"

\* another turn of the same conversation appended its message after turn t
\* did, and the summary it wrote is the one stored
OvertakenBySummary(t) ==
    \E u \in Turns \ {t} :
        /\ frame[u].conversation.id = frame[t].conversation.id
        /\ frame[t].userIndex > 0
        /\ frame[u].userIndex > frame[t].userIndex
        /\ pc[u] \in AfterCheck
        /\ SummaryCalls(u) # {}
        /\ conversations[frame[t].conversation.id].summaryUntil
               = Some(frame[u].totalMessageCount - RAW_WINDOW_SIZE)

C27_StopsAfterDisconnect ==
    [][ sse.closed =>
            /\ sse'.writes = sse.writes
            /\ sse'.pulled = sse.pulled ]_vars

\* the gateway's stream failed, or gave only empty or white-space text
StreamFailed(o) == o.threw \/ Trim(JoinWith(o.chunks, <<>>)) = <<>>

\* C28 (as claimed): whatever the gateway's stream does, generateReplyStream
\* has yielded at least one fragment when it ends, and when the stream
\* failed or gave only empty or white-space text the fragments yielded,
\* put together, are the apology text.
C28_StreamEndsInApology ==
    prompt.generateReplyStream # NULL =>
        LET call == Val(prompt.generateReplyStream)
        IN  /\ Len(call.result) >= 1
            /\ \A i \in 1 .. Len(call.result) : call.result[i] # <<>>
            /\ StreamFailed(call.answer) =>
                   JoinWith(call.result, <<>>) = FALLBACK_REPLY

\* the last n tokens of a text
Suffix(text, n) == SubSeq(text, Len(text) - n + 1, Len(text))

\* how a prompt ends when the input closes the recent conversation and is
\* then given as the current input
InputTwice(message) ==
    <<"Customer:", " ">> \o message
        \o <<"\n", "\n", "\n", "Customer:", " ">> \o message
        \o <<"\n", "Agent:">>

\* C29: in turns executed one at a time, the tail window a turn reads ends
\* with the row the turn appended in step 2, the last message handed to
\* every reply call is the input of the turn as a user message, and the
\* prompt ends with the input twice: as the last line of the recent
\* conversation and as the current input.
C29_InputRenderedTwice ==
    \A t \in Turns :
        /\ pc[t] \in HoldsTail =>
               LET rows == frame[t].rawMessages
               IN  /\ Len(rows) >= 1
                   /\ rows[Len(rows)].createdAt = frame[t].userIndex
                   /\ rows[Len(rows)]
                          = messages[frame[t].conversation.id][frame[t].userIndex]
        /\ \A i \in 1 .. Len(frame[t].calls) :
               LET call == frame[t].calls[i]
               IN  call.fn = "generateReply" =>
                       /\ Len(call.messages) >= 1
                       /\ call.messages[Len(call.messages)]
                              = [sender |-> "user", text |-> frame[t].message]
                       /\ call.userMessage = Some(frame[t].message)
                       /\ Suffix(PromptOf(call), Len(InputTwice(frame[t].message)))
                              = InputTwice(frame[t].message)

\* a reply call was made on a full tail window of 5 messages that ends
\* with the turn's input
C29_Witness ==
    \E t \in Turns :
        /\ pc[t] = "saveReply"
        /\ Len(frame[t].rawMessages) = RAW_WINDOW_SIZE
        /\ frame[t].rawMessages[RAW_WINDOW_SIZE].createdAt = frame[t].userIndex
        /\ frame[t].calls[Len(frame[t].calls)].fn = "generateReply"

\* the summary is the empty string
EmptySummary(summary) == summary = Some(<<>>)

\* C30: in turns executed one at a time, a summary is stored as the empty
\* string only from a gateway text that is not empty but trims to empty; a
\* check that ran on a conversation whose summary is the empty string, with
\* totalMessageCount > 20, asked the gateway once, for an initial summary of
\* messages 1 to totalMessageCount - 5, and stored summaryUntil =
\* totalMessageCount - 5, not below what it was; and a reply call made with
\* the empty summary has no summary block in its prompt.
C30_EmptySummaryIsAbsent ==
    \A t \in Turns :
        LET f == frame[t]
            c == f.conversation.id
            N == f.totalMessageCount
        IN  /\ ( /\ pc[t] \in AfterCheck
                 /\ EmptySummary(f.conversation.summary)
                 /\ N > SUMMARY_THRESHOLD ) =>
                   /\ SummaryCalls(t) = {1}
                   /\ f.calls[1].fn = "generateSummary"
                   /\ Positions(f.calls[1].messages) = Range(1, N - RAW_WINDOW_SIZE)
                   /\ conversations[c].summary = Some(f.summaryText)
                   /\ conversations[c].summaryUntil = Some(N - RAW_WINDOW_SIZE)
                   /\ N - RAW_WINDOW_SIZE >= OrZero(f.conversation.summaryUntil)
            /\ ( /\ pc[t] \in AfterCheck
                 /\ SummaryCalls(t) # {}
                 /\ EmptySummary(conversations[c].summary) ) =>
                   \E i \in SummaryCalls(t) :
                       /\ ~f.calls[i].answer.threw
                       /\ f.calls[i].answer.text # <<>>
                       /\ Trim(f.calls[i].answer.text) = <<>>
            /\ \A i \in 1 .. Len(f.calls) :
                   (f.calls[i].fn = "generateReply"
                        /\ EmptySummary(f.calls[i].summary)) =>
                       /\ "[Previous conversation summary]"
                              \notin Tokens(PromptOf(f.calls[i]))
                       /\ PromptOf(f.calls[i])
                              = generateReplyPrompt(NULL, f.calls[i].messages,
                                                    Val(f.calls[i].userMessage))

\* a later turn found the empty summary with summaryUntil 16 and ran the
\* initial compression again, over messages 1 to 18
C30_Witness ==
    \E t \in Turns :
        /\ pc[t] = "generateReply"
        /\ EmptySummary(frame[t].conversation.summary)
        /\ frame[t].conversation.summaryUntil = Some(16)
        /\ frame[t].totalMessageCount = 23
        /\ Len(frame[t].calls) = 1
        /\ frame[t].calls[1].fn = "generateSummary"
        /\ conversations[frame[t].conversation.id].summaryUntil = Some(18)

\* the reply call of the turn that stored the empty summary was made with it
C30_WitnessPrompt ==
    \E t \in Turns :
        /\ pc[t] = "saveReply"
        /\ Len(frame[t].calls) = 2
        /\ frame[t].calls[2].fn = "generateReply"
        /\ EmptySummary(frame[t].calls[2].summary)

====
